---- MODULE Spec2Model ----
(***************************************************************************)
(* AWSSecretsManager (src/src/aws-secret-manager.ts): a facade over the    *)
(* Secrets Manager client.  Every public method builds one command, sends  *)
(* it, awaits the response and turns the response or the rejection into a  *)
(* value or a SecretsManagerError.                                         *)
(*                                                                         *)
(* Conventions of the model                                                *)
(*  - an optional field (TypeScript `x?: T`, or undefined) is a sequence   *)
(*    of length 0 (absent) or 1 (present);                                 *)
(*  - a text (the contents of a JavaScript string that is serialised or    *)
(*    parsed) is a sequence of one-character strings over Chars; names,    *)
(*    tokens and identifiers, which are only copied and compared, are      *)
(*    TLA+ strings;                                                        *)
(*  - a JavaScript value is a record of one fixed shape (JsString,         *)
(*    JsNumber, JsArray, JsObject), so that any two values can be compared.*)
(***************************************************************************)
EXTENDS Integers, Sequences, FiniteSets, TLC

VARIABLES
    pc,        \* "idle": no call yet; "awaiting": a command was sent and the
               \* method is suspended at its await; "done": the promise settled
    call,      \* the method invoked and its arguments
    request,   \* the input of the command the method sent
    response,  \* what the client answered (a response or a rejection)
    outcome,   \* how the promise settled: a returned value or a thrown error
    store,     \* the secret the storing service holds (round-trip scenario)
    created,   \* the value the caller gave to createSecret (round-trip scenario)
    pages,     \* the pages the paging service holds (pagination scenario)
    received,  \* the results the paging caller got so far (pagination scenario)
    client,    \* the facade's only field: the configuration its client was built with
    config,    \* the argument given to the constructor (construction scenario)
    env,       \* process.env.AWS_REGION at construction (construction scenario)
    slots      \* the calls of concurrent callers (concurrency scenario)

vars == <<pc, call, request, response, outcome, store, created, pages, received,
          client, config, env, slots>>

None == <<>>
Some(x) == <<x>>

(***************************************************************************)
(* Bounds of the input universe.                                           *)
(***************************************************************************)
\* Largest number of elements of an array / members of an object a caller stores.
MaxElems == 2
\* Largest number of entries in the SecretValues list of a batch response.
MaxItems == 2
\* Largest number of pages the paging service holds.
MaxPages == 3
\* Largest number of entries in a SecretList, Versions or Tags list of a
\* response, and of tags in a caller's mapping.
MaxEntries == 2
\* Number of callers with a call in flight at the same time.
MaxCallers == 2

(***************************************************************************)
(* JavaScript values and the JSON built-ins.                               *)
(* The texts of the model are over Chars, so the grammar handled below is  *)
(* JSON restricted to that alphabet: strings with the escapes \" and \\,   *)
(* unsigned integers, arrays, objects, and the space as white space.       *)
(* A run of digits is shorter than 10 digits, so a number is below 2^31    *)
(* and a canonical numeric key is an array index.                          *)
(***************************************************************************)
Chars == {"a", "c", "\"", "\\", "{", "}", "[", "]", ":", ",", " ",
          "0", "1", "2", "3", "4", "5", "6", "7", "8", "9"}

DigitChars == <<"0", "1", "2", "3", "4", "5", "6", "7", "8", "9">>

IsDigit(c) == \E d \in 1..10 : DigitChars[d] = c

DigitValue(c) == (CHOOSE d \in 1..10 : DigitChars[d] = c) - 1

JsString(s) == [t |-> "string", s |-> s, n |-> 0, ks |-> <<>>, vs |-> <<>>]
JsNumber(n) == [t |-> "number", s |-> <<>>, n |-> n, ks |-> <<>>, vs |-> <<>>]
JsArray(vs) == [t |-> "array", s |-> <<>>, n |-> 0, ks |-> <<>>, vs |-> vs]
\* An object: its own keys ks in property order, ks[i] bound to vs[i].
JsObject(ks, vs) == [t |-> "object", s |-> <<>>, n |-> 0, ks |-> ks, vs |-> vs]

\* typeof v === 'string'
TypeofString(v) == v.t = "string"

\* Number::toString of an unsigned integer.
RECURSIVE NumberToString(_)
NumberToString(n) ==
    IF n < 10 THEN <<DigitChars[n + 1]>>
    ELSE NumberToString(n \div 10) \o <<DigitChars[(n % 10) + 1]>>

\* QuoteJSONString without its quotes: the two characters of Chars that
\* JSON.stringify escapes.
RECURSIVE EscapeChars(_)
EscapeChars(s) ==
    IF s = <<>> THEN <<>>
    ELSE (IF Head(s) = "\"" THEN <<"\\", "\"">>
          ELSE IF Head(s) = "\\" THEN <<"\\", "\\">>
          ELSE <<Head(s)>>) \o EscapeChars(Tail(s))

QuoteString(s) == <<"\"">> \o EscapeChars(s) \o <<"\"">>

\* JSON.stringify(v), no indent.
RECURSIVE JsonStringify(_), StringifyElements(_, _), StringifyMembers(_, _, _)
JsonStringify(v) ==
    CASE v.t = "string" -> QuoteString(v.s)
      [] v.t = "number" -> NumberToString(v.n)
      [] v.t = "array"  -> <<"[">> \o StringifyElements(v.vs, 1) \o <<"]">>
      [] v.t = "object" -> <<"{">> \o StringifyMembers(v.ks, v.vs, 1) \o <<"}">>

StringifyElements(vs, i) ==
    IF i > Len(vs) THEN <<>>
    ELSE (IF i > 1 THEN <<",">> ELSE <<>>)
         \o JsonStringify(vs[i]) \o StringifyElements(vs, i + 1)

StringifyMembers(ks, vs, i) ==
    IF i > Len(ks) THEN <<>>
    ELSE (IF i > 1 THEN <<",">> ELSE <<>>)
         \o QuoteString(ks[i]) \o <<":">> \o JsonStringify(vs[i])
         \o StringifyMembers(ks, vs, i + 1)

\* A canonical numeric string: such keys come first in an object's property
\* order, ascending.
IsArrayIndex(k) ==
    /\ Len(k) >= 1
    /\ \A i \in 1..Len(k) : IsDigit(k[i])
    /\ (Len(k) > 1 => k[1] # "0")

RECURSIVE IndexValue(_, _)
IndexValue(k, acc) ==
    IF k = <<>> THEN acc ELSE IndexValue(Tail(k), acc * 10 + DigitValue(Head(k)))

\* Where a new key k goes among the keys ks (OrdinaryOwnPropertyKeys order).
InsertAt(ks, k) ==
    IF ~IsArrayIndex(k) THEN Len(ks) + 1
    ELSE LET before == {i \in 1..Len(ks) :
                           /\ IsArrayIndex(ks[i])
                           /\ IndexValue(ks[i], 0) < IndexValue(k, 0)}
         IN  Cardinality(before) + 1

InsertSeq(s, p, x) == SubSeq(s, 1, p - 1) \o <<x>> \o SubSeq(s, p, Len(s))

\* CreateDataProperty(obj, k, v): an existing key keeps its place and takes the
\* new value; a new key is placed in property order.
ObjectSet(obj, k, v) ==
    IF \E i \in 1..Len(obj.ks) : obj.ks[i] = k
    THEN LET i == CHOOSE j \in 1..Len(obj.ks) : obj.ks[j] = k
         IN  JsObject(obj.ks, [obj.vs EXCEPT ![i] = v])
    ELSE LET p == InsertAt(obj.ks, k)
         IN  JsObject(InsertSeq(obj.ks, p, k), InsertSeq(obj.vs, p, v))

\* The parser's results: a value and the index after it, or a SyntaxError.
Parsed(v, i) == [ok |-> TRUE, v |-> v, i |-> i]
SyntaxError == [ok |-> FALSE, v |-> JsNumber(0), i |-> 0]

RECURSIVE SkipWs(_, _)
SkipWs(text, i) ==
    IF i <= Len(text) /\ text[i] = " " THEN SkipWs(text, i + 1) ELSE i

\* The characters of a string literal after its opening quote.
RECURSIVE ParseStringBody(_, _, _)
ParseStringBody(text, i, acc) ==
    IF i > Len(text) THEN SyntaxError
    ELSE IF text[i] = "\"" THEN Parsed(JsString(acc), i + 1)
    ELSE IF text[i] = "\\"
         THEN IF i + 1 <= Len(text) /\ text[i + 1] \in {"\"", "\\"}
              THEN ParseStringBody(text, i + 2, Append(acc, text[i + 1]))
              ELSE SyntaxError
    ELSE ParseStringBody(text, i + 1, Append(acc, text[i]))

RECURSIVE ParseDigits(_, _, _)
ParseDigits(text, i, acc) ==
    IF i <= Len(text) /\ IsDigit(text[i])
    THEN ParseDigits(text, i + 1, acc * 10 + DigitValue(text[i]))
    ELSE Parsed(JsNumber(acc), i)

\* int: "0", or a non-zero digit followed by digits.
ParseNumber(text, i) ==
    IF text[i] = "0" THEN Parsed(JsNumber(0), i + 1) ELSE ParseDigits(text, i, 0)

RECURSIVE ParseValue(_, _), ParseElements(_, _, _), ParseMembers(_, _, _)
ParseValue(text, i) ==
    LET j == SkipWs(text, i) IN
    IF j > Len(text) THEN SyntaxError
    ELSE IF text[j] = "\"" THEN ParseStringBody(text, j + 1, <<>>)
    ELSE IF IsDigit(text[j]) THEN ParseNumber(text, j)
    ELSE IF text[j] = "["
         THEN LET k == SkipWs(text, j + 1) IN
              IF k <= Len(text) /\ text[k] = "]"
              THEN Parsed(JsArray(<<>>), k + 1)
              ELSE ParseElements(text, k, <<>>)
    ELSE IF text[j] = "{"
         THEN LET k == SkipWs(text, j + 1) IN
              IF k <= Len(text) /\ text[k] = "}"
              THEN Parsed(JsObject(<<>>, <<>>), k + 1)
              ELSE ParseMembers(text, k, JsObject(<<>>, <<>>))
    ELSE SyntaxError

ParseElements(text, i, acc) ==
    LET r == ParseValue(text, i) IN
    IF ~r.ok THEN SyntaxError
    ELSE LET k == SkipWs(text, r.i) IN
         IF k > Len(text) THEN SyntaxError
         ELSE IF text[k] = "," THEN ParseElements(text, k + 1, Append(acc, r.v))
         ELSE IF text[k] = "]" THEN Parsed(JsArray(Append(acc, r.v)), k + 1)
         ELSE SyntaxError

ParseMembers(text, i, obj) ==
    LET k == SkipWs(text, i) IN
    IF k > Len(text) \/ text[k] # "\"" THEN SyntaxError
    ELSE LET key == ParseStringBody(text, k + 1, <<>>) IN
         IF ~key.ok THEN SyntaxError
         ELSE LET c == SkipWs(text, key.i) IN
              IF c > Len(text) \/ text[c] # ":" THEN SyntaxError
              ELSE LET val == ParseValue(text, c + 1) IN
                   IF ~val.ok THEN SyntaxError
                   ELSE LET m == SkipWs(text, val.i)
                            o == ObjectSet(obj, key.v.s, val.v)
                        IN  IF m > Len(text) THEN SyntaxError
                            ELSE IF text[m] = "," THEN ParseMembers(text, m + 1, o)
                            ELSE IF text[m] = "}" THEN Parsed(o, m + 1)
                            ELSE SyntaxError

\* JSON.parse(text): the value, or a SyntaxError (ok = FALSE).
JsonParse(text) ==
    LET r == ParseValue(text, 1) IN
    IF r.ok /\ SkipWs(text, r.i) > Len(text) THEN r ELSE SyntaxError

\* Deep equality of two values (Jest's toEqual): same type and contents, the
\* members of an object compared key by key whatever their order.
RECURSIVE DeepEqual(_, _)
DeepEqual(a, b) ==
    /\ a.t = b.t
    /\ a.s = b.s
    /\ a.n = b.n
    /\ Len(a.vs) = Len(b.vs)
    /\ IF a.t = "object"
       THEN /\ {a.ks[i] : i \in 1..Len(a.ks)} = {b.ks[i] : i \in 1..Len(b.ks)}
            /\ \A i \in 1..Len(a.ks) : \A j \in 1..Len(b.ks) :
                   a.ks[i] = b.ks[j] => DeepEqual(a.vs[i], b.vs[j])
       ELSE \A i \in 1..Len(a.vs) : DeepEqual(a.vs[i], b.vs[i])

(***************************************************************************)
(* Errors.  proto is the prototype chain of the thrown value:              *)
(* "SecretsManagerError" (which extends Error), "Error" (what the client   *)
(* rejects with) or "Object" (a thrown value that is not an Error).  The   *)
(* message of a client error is a sequence of words, so that               *)
(* String.prototype.includes is a search for a run of words.               *)
(***************************************************************************)
\* class SecretsManagerError, its constructor.
SecretsManagerError(message, originalError) ==
    [proto |-> "SecretsManagerError", name |-> "SecretsManagerError",
     message |-> message, originalError |-> originalError]

\* What the client rejects with, or any other thrown value.
Thrown(proto, name, message) ==
    [proto |-> proto, name |-> name, message |-> message, originalError |-> None]

InstanceOfError(e) == e.proto \in {"Error", "SecretsManagerError"}

InstanceOfSecretsManagerError(e) == e.proto = "SecretsManagerError"

\* haystack.includes(needle)
Includes(haystack, needle) ==
    \E i \in 0..(Len(haystack) - Len(needle)) :
        SubSeq(haystack, i + 1, i + Len(needle)) = needle

MarkedForDeletion == <<"marked", "for", "deletion">>

\* A variant of formatError that hands an Error on as it is.
formatError_Rethrow(message, error) ==
    IF InstanceOfError(error) THEN error ELSE SecretsManagerError(message, None)

\* A variant of formatError that keeps the message of the cause.
formatError_CauseMessage(message, error) ==
    IF InstanceOfError(error)
    THEN SecretsManagerError(error.message, Some(error))
    ELSE SecretsManagerError(message, None)

formatError(message, error) ==
    IF InstanceOfError(error)
    THEN SecretsManagerError(message, Some(error))
    ELSE SecretsManagerError(message, None)

BinaryNotSupported == <<"Binary secrets are not supported">>
SecretMarkedForDeletion ==
    <<"The requested secret is marked for deletion and cannot be accessed.">>
SecretNotFound(secretName) == <<"Secret \"", secretName, "\" not found.">>
AccessDenied == <<"Access denied to the requested secret.">>
RequestThrottled == <<"Request throttled. Try again later.">>
FailedToRetrieveSecret == <<"Failed to retrieve secret">>
SecretsNotFound == <<"One or more secrets not found">>
AccessDeniedToSecrets == <<"Access denied to one or more secrets">>
FailedToRetrieveSecrets == <<"Failed to retrieve secrets">>
FailedToCreateSecret == <<"Failed to create secret">>

(***************************************************************************)
(* How a promise settles, and what the client answers.                     *)
(***************************************************************************)
Return(v) == [threw |-> FALSE, value |-> Some(v), error |-> None]
Throw(e) == [threw |-> TRUE, value |-> None, error |-> Some(e)]

Resolved(body) == [rejected |-> FALSE, body |-> Some(body), error |-> None]
Rejected(e) == [rejected |-> TRUE, body |-> None, error |-> Some(e)]

\* Truthiness of an optional boolean, an optional text and an optional string.
TruthyBool(o) == o = Some(TRUE)
TruthyText(o) == o # None /\ o[1] # <<>>
TruthyString(o) == o # None /\ o[1] # ""

(***************************************************************************)
(* The constructor                                                         *)
(***************************************************************************)
\* The default parameter `config = {}`.
ConstructorDefaulted(cfg) ==
    IF cfg = None
    THEN [region |-> None, accessKeyId |-> None, secretAccessKey |-> None,
          credentials |-> None]
    ELSE cfg[1]

\* The region of the client when neither the config nor the environment has one.
DefaultRegion == "us-east-1"

\* A variant of constructor that prefers the credentials object to the key pair.
constructor_CredentialsFirst(cfg, awsRegion) ==
    LET c == ConstructorDefaulted(cfg)
    IN  [region |-> IF TruthyString(c.region) THEN c.region[1]
                    ELSE IF TruthyString(awsRegion) THEN awsRegion[1]
                    ELSE DefaultRegion,
         credentials |->
             IF c.credentials # None THEN c.credentials
             ELSE IF TruthyString(c.accessKeyId) /\ TruthyString(c.secretAccessKey)
             THEN Some([accessKeyId |-> c.accessKeyId[1],
                        secretAccessKey |-> c.secretAccessKey[1]])
             ELSE None]

\* The clientConfig the constructor builds its SecretsManagerClient with.
constructor(cfg, awsRegion) ==
    LET c == ConstructorDefaulted(cfg)
    IN  [region |-> IF TruthyString(c.region) THEN c.region[1]
                    ELSE IF TruthyString(awsRegion) THEN awsRegion[1]
                    ELSE DefaultRegion,
         credentials |->
             IF TruthyString(c.accessKeyId) /\ TruthyString(c.secretAccessKey)
             THEN Some([accessKeyId |-> c.accessKeyId[1],
                        secretAccessKey |-> c.secretAccessKey[1]])
             ELSE IF c.credentials # None THEN c.credentials
             ELSE None]

(***************************************************************************)
(* getSecret                                                               *)
(***************************************************************************)
\* A variant of GetSecretDefaulted whose default object does not set parse.
GetSecretDefaulted_NoParse(options) ==
    IF options = None THEN [parse |-> None, version |-> None] ELSE options[1]

\* The default parameter `options = { parse: true }`: it applies only when the
\* argument is omitted.
GetSecretDefaulted(options) ==
    IF options = None THEN [parse |-> Some(TRUE), version |-> None] ELSE options[1]

\* new GetSecretValueCommand({...})
GetSecretRequest(secretName, options) ==
    [SecretId |-> secretName, VersionId |-> GetSecretDefaulted(options).version]

\* The try block: the await, then the response's SecretString.
GetSecretTry(options, answer) ==
    IF answer.rejected THEN Throw(answer.error[1])
    ELSE LET resp == answer.body[1]
             opts == GetSecretDefaulted(options)
         IN  IF TruthyText(resp.SecretString)
             THEN IF TruthyBool(opts.parse)
                  THEN LET r == JsonParse(resp.SecretString[1])
                       IN  IF r.ok THEN Return(r.v)
                           ELSE Return(JsString(resp.SecretString[1]))
                  ELSE Return(JsString(resp.SecretString[1]))
             ELSE Throw(SecretsManagerError(BinaryNotSupported, None))

\* A variant of GetSecretCatch that tests the name of an InvalidRequestException
\* and not its message.
GetSecretCatch_NameOnly(secretName, error) ==
    IF InstanceOfError(error) /\ error.name = "InvalidRequestException"
    THEN SecretsManagerError(SecretMarkedForDeletion, Some(error))
    ELSE IF InstanceOfError(error) /\ error.name = "ResourceNotFoundException"
    THEN SecretsManagerError(SecretNotFound(secretName), Some(error))
    ELSE IF InstanceOfError(error) /\ error.name = "AccessDeniedException"
    THEN SecretsManagerError(AccessDenied, Some(error))
    ELSE IF InstanceOfError(error) /\ error.name = "ThrottlingException"
    THEN SecretsManagerError(RequestThrottled, Some(error))
    ELSE formatError(FailedToRetrieveSecret, error)

\* The catch block: it receives whatever the try block threw.
GetSecretCatch(secretName, error) ==
    IF InstanceOfError(error) /\ error.name = "InvalidRequestException"
       /\ Includes(error.message, MarkedForDeletion)
    THEN SecretsManagerError(SecretMarkedForDeletion, Some(error))
    ELSE IF InstanceOfError(error) /\ error.name = "ResourceNotFoundException"
    THEN SecretsManagerError(SecretNotFound(secretName), Some(error))
    ELSE IF InstanceOfError(error) /\ error.name = "AccessDeniedException"
    THEN SecretsManagerError(AccessDenied, Some(error))
    ELSE IF InstanceOfError(error) /\ error.name = "ThrottlingException"
    THEN SecretsManagerError(RequestThrottled, Some(error))
    ELSE formatError(FailedToRetrieveSecret, error)

getSecret(secretName, options, answer) ==
    LET t == GetSecretTry(options, answer)
    IN  IF t.threw THEN Throw(GetSecretCatch(secretName, t.error[1])) ELSE t

(***************************************************************************)
(* createSecret                                                            *)
(***************************************************************************)
\* A variant of SecretStringOf that stringifies strings too.
SecretStringOf_AlwaysStringify(secretValue) == JsonStringify(secretValue)

\* typeof secretValue === 'string' ? secretValue : JSON.stringify(secretValue)
SecretStringOf(secretValue) ==
    IF TypeofString(secretValue) THEN secretValue.s ELSE JsonStringify(secretValue)

\* new CreateSecretCommand({...})
CreateSecretRequest(secretName, secretValue, options) ==
    [Name |-> secretName, SecretString |-> SecretStringOf(secretValue),
     Description |-> options.description, Tags |-> options.tags]

createSecret(secretName, answer) ==
    IF answer.rejected
    THEN Throw(formatError(FailedToCreateSecret, answer.error[1]))
    ELSE IF TruthyString(answer.body[1].ARN)
         THEN Return(answer.body[1].ARN[1])
         ELSE Return(secretName)

(***************************************************************************)
(* batchGetSecrets                                                         *)
(***************************************************************************)
convertFilters(filters) ==
    IF filters = None THEN None
    ELSE Some([i \in 1..Len(filters[1]) |->
                  [Key |-> filters[1][i].Key, Values |-> filters[1][i].Values]])

parseSecretValue(value) ==
    LET r == JsonParse(value) IN IF r.ok THEN r.v ELSE JsString(value)

\* A variant of BatchGetSecretsRequest that does not pass the caller's nextToken.
BatchGetSecretsRequest_NoToken(options) ==
    [SecretIdList |-> options.secretIds, Filters |-> convertFilters(options.filters),
     MaxResults |-> options.maxResults, NextToken |-> None]

\* new BatchGetSecretValueCommand({...})
BatchGetSecretsRequest(options) ==
    [SecretIdList |-> options.secretIds, Filters |-> convertFilters(options.filters),
     MaxResults |-> options.maxResults, NextToken |-> options.nextToken]

\* A variant of NoSecrets that is not fresh: the secrets of a result that some
\* concurrent caller already holds.
NoSecrets_Retained ==
    LET held == {c \in DOMAIN slots :
                    /\ slots[c].pc = "done"
                    /\ slots[c].call.op = "batchGetSecrets"
                    /\ ~slots[c].outcome[1].threw}
    IN  IF held = {} THEN [name \in {} |-> JsNumber(0)]
        ELSE slots[CHOOSE c \in held : TRUE].outcome[1].value[1].secrets

\* result.secrets of the result object each call creates
NoSecrets == [name \in {} |-> JsNumber(0)]

\* result.secrets[name] = value
PutSecret(secrets, name, value) ==
    [k \in DOMAIN secrets \cup {name} |-> IF k = name THEN value ELSE secrets[k]]

\* A variant of BatchCollect with getSecret's default: it parses each text
\* unless parse is false.
RECURSIVE BatchCollect_ParsesByDefault(_, _, _, _)
BatchCollect_ParsesByDefault(values, i, parse, secrets) ==
    IF i > Len(values) THEN [threw |-> FALSE, secrets |-> secrets]
    ELSE LET sv == values[i] IN
         IF TruthyString(sv.Name)
         THEN IF TruthyText(sv.SecretString)
              THEN BatchCollect_ParsesByDefault(values, i + 1, parse,
                       PutSecret(secrets, sv.Name[1],
                           IF parse # Some(FALSE)
                           THEN parseSecretValue(sv.SecretString[1])
                           ELSE JsString(sv.SecretString[1])))
              ELSE IF sv.SecretBinary # None
                   THEN [threw |-> TRUE, secrets |-> secrets]
                   ELSE BatchCollect_ParsesByDefault(values, i + 1, parse, secrets)
         ELSE BatchCollect_ParsesByDefault(values, i + 1, parse, secrets)

\* The loop over response.SecretValues from entry i on: the secrets collected,
\* or threw when it met a named entry with no text and a binary payload.
RECURSIVE BatchCollect(_, _, _, _)
BatchCollect(values, i, parse, secrets) ==
    IF i > Len(values) THEN [threw |-> FALSE, secrets |-> secrets]
    ELSE LET sv == values[i] IN
         IF TruthyString(sv.Name)
         THEN IF TruthyText(sv.SecretString)
              THEN BatchCollect(values, i + 1, parse,
                       PutSecret(secrets, sv.Name[1],
                           IF TruthyBool(parse)
                           THEN parseSecretValue(sv.SecretString[1])
                           ELSE JsString(sv.SecretString[1])))
              ELSE IF sv.SecretBinary # None
                   THEN [threw |-> TRUE, secrets |-> secrets]
                   ELSE BatchCollect(values, i + 1, parse, secrets)
         ELSE BatchCollect(values, i + 1, parse, secrets)

\* A variant of BatchErrors that takes errorCode and errorMessage from each
\* other's field.
BatchErrors_Swapped(errors) ==
    [i \in 1..Len(errors) |->
        [secretId |-> errors[i].SecretId, errorCode |-> errors[i].Message,
         errorMessage |-> errors[i].ErrorCode]]

\* response.Errors.map(...)
BatchErrors(errors) ==
    [i \in 1..Len(errors) |->
        [secretId |-> errors[i].SecretId, errorCode |-> errors[i].ErrorCode,
         errorMessage |-> errors[i].Message]]

\* The try block.
BatchGetSecretsTry(options, answer) ==
    IF answer.rejected THEN Throw(answer.error[1])
    ELSE LET resp == answer.body[1]
             got == IF resp.SecretValues # None
                    THEN BatchCollect(resp.SecretValues[1], 1, options.parse, NoSecrets)
                    ELSE [threw |-> FALSE, secrets |-> NoSecrets]
         IN  IF got.threw THEN Throw(SecretsManagerError(BinaryNotSupported, None))
             ELSE Return([secrets |-> got.secrets,
                          errors |-> IF resp.Errors # None
                                     THEN BatchErrors(resp.Errors[1]) ELSE <<>>,
                          nextToken |-> IF TruthyString(resp.NextToken)
                                        THEN resp.NextToken ELSE None])

\* The catch block.
BatchGetSecretsCatch(error) ==
    IF InstanceOfSecretsManagerError(error) THEN error
    ELSE IF InstanceOfError(error) /\ error.name = "ResourceNotFoundException"
    THEN SecretsManagerError(SecretsNotFound, Some(error))
    ELSE IF InstanceOfError(error) /\ error.name = "AccessDeniedException"
    THEN SecretsManagerError(AccessDeniedToSecrets, Some(error))
    ELSE IF InstanceOfError(error) /\ error.name = "ThrottlingException"
    THEN SecretsManagerError(RequestThrottled, Some(error))
    ELSE formatError(FailedToRetrieveSecrets, error)

batchGetSecrets(options, answer) ==
    LET t == BatchGetSecretsTry(options, answer)
    IN  IF t.threw THEN Throw(BatchGetSecretsCatch(t.error[1])) ELSE t

(***************************************************************************)
(* deleteSecret                                                            *)
(***************************************************************************)
FailedToDeleteSecret == <<"Failed to delete secret">>

\* The recovery window sent when the caller gives none.
DefaultRecoveryDays == 30

\* What an async method that returns nothing resolves with.
Undefined == "undefined"

\* The default parameter `options = {}`.
DeleteSecretDefaulted(options) ==
    IF options = None THEN [forceDelete |-> None, recoveryDays |-> None]
    ELSE options[1]

\* Truthiness of an optional number.
TruthyNumber(o) == o # None /\ o[1] # 0

\* A variant of DeleteSecretRequest that sends the recovery window whether or
\* not the deletion is forced.
DeleteSecretRequest_KeepsWindow(secretName, options) ==
    LET opts == DeleteSecretDefaulted(options)
    IN  [SecretId |-> secretName,
         ForceDeleteWithoutRecovery |-> opts.forceDelete,
         RecoveryWindowInDays |->
             IF TruthyNumber(opts.recoveryDays) THEN opts.recoveryDays
             ELSE Some(DefaultRecoveryDays)]

\* new DeleteSecretCommand({...})
DeleteSecretRequest(secretName, options) ==
    LET opts == DeleteSecretDefaulted(options)
    IN  [SecretId |-> secretName,
         ForceDeleteWithoutRecovery |-> opts.forceDelete,
         RecoveryWindowInDays |->
             IF TruthyBool(opts.forceDelete) THEN None
             ELSE IF TruthyNumber(opts.recoveryDays) THEN opts.recoveryDays
             ELSE Some(DefaultRecoveryDays)]

deleteSecret(answer) ==
    IF answer.rejected
    THEN Throw(formatError(FailedToDeleteSecret, answer.error[1]))
    ELSE Return(Undefined)

(***************************************************************************)
(* updateSecret                                                            *)
(***************************************************************************)
FailedToUpdateSecret == <<"Failed to update secret">>

\* new UpdateSecretCommand({...})
UpdateSecretRequest(secretName, secretValue, options) ==
    [SecretId |-> secretName, SecretString |-> SecretStringOf(secretValue),
     Description |-> options.description]

updateSecret(secretName, answer) ==
    IF answer.rejected
    THEN Throw(formatError(FailedToUpdateSecret, answer.error[1]))
    ELSE IF TruthyString(answer.body[1].ARN)
         THEN Return(answer.body[1].ARN[1])
         ELSE Return(secretName)

(***************************************************************************)
(* secretExists                                                            *)
(***************************************************************************)
FailedToCheckSecretExistence == <<"Failed to check secret existence">>

\* new DescribeSecretCommand({...}), of secretExists and of getTags
DescribeSecretRequest(secretName) == [SecretId |-> secretName]

\* A variant of secretExists that answers false to every Error.
secretExists_FalseOnAnyError(answer) ==
    IF answer.rejected
    THEN IF InstanceOfError(answer.error[1])
         THEN Return(FALSE)
         ELSE Throw(formatError(FailedToCheckSecretExistence, answer.error[1]))
    ELSE Return(TRUE)

secretExists(answer) ==
    IF answer.rejected
    THEN IF InstanceOfError(answer.error[1])
            /\ answer.error[1].name = "ResourceNotFoundException"
         THEN Return(FALSE)
         ELSE Throw(formatError(FailedToCheckSecretExistence, answer.error[1]))
    ELSE Return(TRUE)

(***************************************************************************)
(* listSecrets                                                             *)
(***************************************************************************)
FailedToListSecrets == <<"Failed to list secrets">>

\* The default parameter `options = {}`.
ListSecretsDefaulted(options) ==
    IF options = None
    THEN [maxResults |-> None, nextToken |-> None, filters |-> None]
    ELSE options[1]

\* new ListSecretsCommand({...})
ListSecretsRequest(options) ==
    LET opts == ListSecretsDefaulted(options)
    IN  [MaxResults |-> opts.maxResults, NextToken |-> opts.nextToken,
         Filters |-> opts.filters]

\* .map(secret => secret.Name).filter(name => !!name), from entry i on
RECURSIVE SecretNamesFrom(_, _)
SecretNamesFrom(list, i) ==
    IF i > Len(list) THEN <<>>
    ELSE IF TruthyString(list[i].Name)
         THEN <<list[i].Name[1]>> \o SecretNamesFrom(list, i + 1)
         ELSE SecretNamesFrom(list, i + 1)

\* A variant of ListSecretsResult that keeps one name per entry, nameless or not.
ListSecretsResult_KeepsNameless(resp) ==
    [secretNames |->
         IF resp.SecretList = None THEN <<>>
         ELSE [i \in 1..Len(resp.SecretList[1]) |->
                  IF resp.SecretList[1][i].Name = None THEN ""
                  ELSE resp.SecretList[1][i].Name[1]],
     nextToken |-> resp.NextToken]

\* The object returned on success.
ListSecretsResult(resp) ==
    [secretNames |-> IF resp.SecretList = None THEN <<>>
                     ELSE SecretNamesFrom(resp.SecretList[1], 1),
     nextToken |-> resp.NextToken]

listSecrets(answer) ==
    IF answer.rejected
    THEN Throw(formatError(FailedToListSecrets, answer.error[1]))
    ELSE Return(ListSecretsResult(answer.body[1]))

(***************************************************************************)
(* tagSecret                                                               *)
(***************************************************************************)
FailedToTagSecret == <<"Failed to tag secret">>

\* A caller's mapping: its keys in property order, and the value of each.
TagMapping(ks, vs) == [ks |-> ks, vs |-> vs]

\* The array index a key denotes, 0 when the key is not integer-like. Integer-
\* like keys come first in property order, by index; the others follow in
\* insertion order.
TagKeyIndex(k) == IF k = "1" THEN 1 ELSE 0

\* tags[k] = v: the value of an existing key is replaced; a new key is placed in
\* property order.
TagMappingSet(tags, k, v) ==
    IF \E i \in 1..Len(tags.ks) : tags.ks[i] = k
    THEN TagMapping(tags.ks,
                    [i \in 1..Len(tags.ks) |-> IF tags.ks[i] = k THEN v ELSE tags.vs[i]])
    ELSE IF TagKeyIndex(k) = 0
    THEN TagMapping(Append(tags.ks, k), Append(tags.vs, v))
    ELSE LET p == Cardinality({i \in 1..Len(tags.ks) :
                                  /\ TagKeyIndex(tags.ks[i]) > 0
                                  /\ TagKeyIndex(tags.ks[i]) < TagKeyIndex(k)})
         IN  TagMapping(SubSeq(tags.ks, 1, p) \o <<k>>
                            \o SubSeq(tags.ks, p + 1, Len(tags.ks)),
                        SubSeq(tags.vs, 1, p) \o <<v>>
                            \o SubSeq(tags.vs, p + 1, Len(tags.vs)))

\* The mapping an object literal with these members, in this order, evaluates
\* to.
RECURSIVE TagMappingOf(_, _)
TagMappingOf(members, i) ==
    IF i = 0 THEN TagMapping(<<>>, <<>>)
    ELSE TagMappingSet(TagMappingOf(members, i - 1), members[i][1], members[i][2])

\* A variant of TagEntries that pairs every key with the first value.
TagEntries_FirstValue(tags) ==
    [i \in 1..Len(tags.ks) |-> [Key |-> tags.ks[i], Value |-> tags.vs[1]]]

\* Object.entries(tags).map(([Key, Value]) => ({ Key, Value }))
TagEntries(tags) ==
    [i \in 1..Len(tags.ks) |-> [Key |-> tags.ks[i], Value |-> tags.vs[i]]]

\* new TagResourceCommand({...})
TagSecretRequest(secretName, tags) ==
    [SecretId |-> secretName, Tags |-> TagEntries(tags)]

\* `Successfully tagged secret "${secretName}" with ${n} tags`
SuccessfullyTagged(secretName, n) ==
    <<"Successfully tagged secret \"", secretName, "\" with ">>
        \o NumberToString(n) \o <<" tags">>

tagSecret(secretName, tags, answer) ==
    IF answer.rejected
    THEN Throw(formatError(FailedToTagSecret, answer.error[1]))
    ELSE Return([success |-> TRUE,
                 message |-> SuccessfullyTagged(secretName, Len(tags.ks))])

(***************************************************************************)
(* getSecretVersions                                                       *)
(***************************************************************************)
FailedToGetSecretVersions == <<"Failed to get secret versions">>

\* new ListSecretVersionIdsCommand({...})
GetSecretVersionsRequest(secretName) ==
    [SecretId |-> secretName, IncludeDeprecated |-> TRUE]

\* A variant of IsLatest that looks at the first stage only.
IsLatest_FirstStage(version) ==
    /\ version.VersionStages # None
    /\ version.VersionStages[1] # <<>>
    /\ version.VersionStages[1][1] = "AWSCURRENT"

\* version.VersionStages?.includes('AWSCURRENT') || false
IsLatest(version) ==
    /\ version.VersionStages # None
    /\ \E i \in 1..Len(version.VersionStages[1]) :
           version.VersionStages[1][i] = "AWSCURRENT"

\* (response.Versions || []).map(version => ({...}))
VersionRecords(versions) ==
    [i \in 1..Len(versions) |->
        [versionId |-> IF TruthyString(versions[i].VersionId)
                       THEN versions[i].VersionId[1] ELSE "unknown",
         createdDate |-> versions[i].CreatedDate,
         isLatest |-> IsLatest(versions[i])]]

getSecretVersions(answer) ==
    IF answer.rejected
    THEN Throw(formatError(FailedToGetSecretVersions, answer.error[1]))
    ELSE Return(IF answer.body[1].Versions = None THEN <<>>
                ELSE VersionRecords(answer.body[1].Versions[1]))

(***************************************************************************)
(* getTags                                                                 *)
(***************************************************************************)
FailedToGetSecretTags == <<"Failed to get secret tags">>

NoTags == [k \in {} |-> ""]

\* acc[tag.Key] = tag.Value
PutTag(acc, key, value) ==
    [k \in DOMAIN acc \cup {key} |-> IF k = key THEN value ELSE acc[k]]

\* response.Tags.reduce(...), from tag i on
RECURSIVE ReduceTags(_, _, _)
ReduceTags(tags, i, acc) ==
    IF i > Len(tags) THEN acc
    ELSE IF TruthyString(tags[i].Key) /\ TruthyString(tags[i].Value)
         THEN ReduceTags(tags, i + 1, PutTag(acc, tags[i].Key[1], tags[i].Value[1]))
         ELSE ReduceTags(tags, i + 1, acc)

getTags(secretName, answer) ==
    IF answer.rejected
    THEN IF InstanceOfError(answer.error[1])
            /\ answer.error[1].name = "ResourceNotFoundException"
         THEN Throw(SecretsManagerError(SecretNotFound(secretName),
                                        Some(answer.error[1])))
         ELSE Throw(formatError(FailedToGetSecretTags, answer.error[1]))
    ELSE IF answer.body[1].Tags = None \/ answer.body[1].Tags[1] = <<>>
         THEN Return(NoTags)
         ELSE Return(ReduceTags(answer.body[1].Tags[1], 1, NoTags))

(***************************************************************************)
(* The input universe: what a caller passes and what the client answers.   *)
(***************************************************************************)
Names == {"s1", "s2"}

\* The options argument of getSecret: omitted, or an object with each field
\* set or not.
GetSecretOptionsArgs ==
    {None} \cup {Some([parse |-> p, version |-> v]) :
                    p \in {None, Some(TRUE), Some(FALSE)}, v \in {None, Some("v1")}}

\* Payload texts: empty, plain, valid JSON of each kind, and broken JSON.
RawTexts ==
    { <<>>,
      <<"a">>,
      <<"1">>,
      <<"0", "1">>,
      <<" ", "1", "0", " ">>,
      <<"\"", "a", "\"">>,
      <<"\"", "a">>,
      <<"\"", "\\", "\"", "\"">>,
      <<"\"", "\\", "a", "\"">>,
      <<"[", "1", ",", "\"", "a", "\"", "]">>,
      <<"[", "1", ",", "]">>,
      <<"{", "\"", "a", "\"", ":", "1", "}">>,
      <<"{", "\"", "a", "\"", ":", "1">>,
      <<"{", "\"", "a", "\"", ":", "1", ",", "\"", "0", "\"", ":", "[", "]", ",",
        "\"", "a", "\"", ":", "2", "}">> }

\* What GetSecretValue resolves with.
GetSecretValueResponses ==
    {[SecretString |-> s, SecretBinary |-> b] :
        s \in {None} \cup {Some(x) : x \in RawTexts}, b \in {None, Some("bytes")}}

ErrorNames ==
    {"InvalidRequestException", "ResourceNotFoundException", "AccessDeniedException",
     "ThrottlingException", "InternalServiceError"}

ErrorMessages ==
    { <<"The", "secret", "is", "marked", "for", "deletion", ".">>,
      <<"marked", "for", "later", "deletion">>,
      <<"Secrets", "Manager", "can't", "find", "the", "specified", "secret", ".">> }

\* What a send can reject with: an Error of the SDK, or a value that is no Error.
Rejections ==
    {Thrown(p, n, m) : p \in {"Error", "Object"}, n \in ErrorNames, m \in ErrorMessages}

GetSecretValueAnswers ==
    {Resolved(r) : r \in GetSecretValueResponses} \cup {Rejected(e) : e \in Rejections}

\* Sequences over S of length at most n.
SeqsUpTo(S, n) == UNION {[1..k -> S] : k \in 0..n}

BatchFilters == <<[Key |-> "name", Values |-> <<"s">>]>>

BatchOptionsArgs ==
    {[secretIds |-> <<"s1", "s2">>, filters |-> None, maxResults |-> None,
      nextToken |-> None, parse |-> p] : p \in {None, Some(TRUE), Some(FALSE)}}
    \cup {[secretIds |-> <<"s1", "s2">>, filters |-> Some(BatchFilters),
           maxResults |-> Some(1), nextToken |-> Some("t1"), parse |-> Some(TRUE)]}

ValidJsonText == <<"{", "\"", "a", "\"", ":", "1", "}">>
BrokenJsonText == <<"{", "\"", "a", "\"", ":", "1">>

\* The payloads of one entry of SecretValues: none, an empty text, a text, a
\* binary, a text and a binary.
BatchPayloads ==
    {[SecretString |-> None, SecretBinary |-> None],
     [SecretString |-> Some(<<>>), SecretBinary |-> None],
     [SecretString |-> Some(ValidJsonText), SecretBinary |-> None],
     [SecretString |-> Some(BrokenJsonText), SecretBinary |-> None],
     [SecretString |-> None, SecretBinary |-> Some("bytes")],
     [SecretString |-> Some(ValidJsonText), SecretBinary |-> Some("bytes")]}

BatchSecretValues ==
    {[Name |-> n, SecretString |-> p.SecretString, SecretBinary |-> p.SecretBinary] :
        n \in {None} \cup {Some(x) : x \in Names}, p \in BatchPayloads}

ErrorNotFound ==
    [SecretId |-> Some("s2"), ErrorCode |-> Some("ResourceNotFoundException"),
     Message |-> Some("Secret not found")]
ErrorDenied ==
    [SecretId |-> Some("s1"), ErrorCode |-> Some("AccessDeniedException"),
     Message |-> None]

\* What BatchGetSecretValue resolves with.
BatchGetSecretValueResponses ==
    {[SecretValues |-> sv, Errors |-> et[1], NextToken |-> et[2]] :
        sv \in {None} \cup {Some(l) : l \in SeqsUpTo(BatchSecretValues, MaxItems)},
        et \in {<<None, None>>,
                <<Some(<<ErrorNotFound, ErrorDenied>>), None>>,
                <<Some(<<ErrorDenied>>), Some("t2")>>}}

BatchGetSecretValueAnswers ==
    {Resolved(r) : r \in BatchGetSecretValueResponses}
    \cup {Rejected(e) : e \in Rejections}

\* The recoveryDays a caller gives: zero, the least and the greatest the
\* service accepts.
RecoveryDaysArgs == {0, 7, 30}

\* The options argument of deleteSecret: omitted, or an object with each field
\* set or not.
DeleteSecretOptionsArgs ==
    {None} \cup {Some([forceDelete |-> f, recoveryDays |-> d]) :
                    f \in {None, Some(TRUE), Some(FALSE)},
                    d \in {None} \cup {Some(n) : n \in RecoveryDaysArgs}}

\* What DeleteSecret resolves with.
DeleteSecretResponse == [Name |-> Some("s1")]

DeleteSecretAnswers ==
    {Resolved(DeleteSecretResponse)} \cup {Rejected(e) : e \in Rejections}

AtomTexts == {<<>>, <<"a", "\"">>, <<"\\">>}

Atoms == {JsNumber(0), JsNumber(10)} \cup {JsString(s) : s \in AtomTexts}

ObjectKeys == {<<"a">>, <<"\"">>, <<"1">>, <<"0">>}

\* The object an object literal with these members, in this order, evaluates to.
RECURSIVE ObjectOf(_, _)
ObjectOf(members, i) ==
    IF i = 0 THEN JsObject(<<>>, <<>>)
    ELSE ObjectSet(ObjectOf(members, i - 1), members[i][1], members[i][2])

\* Arrays and objects of at most MaxElems elements taken from S.
ArraysOf(S) == {JsArray(vs) : vs \in SeqsUpTo(S, MaxElems)}
ObjectsOf(S) ==
    {ObjectOf(ms, Len(ms)) : ms \in SeqsUpTo(ObjectKeys \X S, MaxElems)}

FlatStructures == ArraysOf(Atoms) \cup ObjectsOf(Atoms)

NestedStructures ==
    {JsArray(<<x>>) : x \in FlatStructures}
    \cup {JsObject(<<<<"a">>>>, <<x>>) : x \in FlatStructures}

\* The values a caller stores: strings (among them the empty string and valid
\* JSON texts), numbers, and structures nested two deep.
StringValues == {JsString(s) : s \in RawTexts}
StructureValues == {JsNumber(0), JsNumber(10)} \cup FlatStructures \cup NestedStructures
SecretValues == StringValues \cup StructureValues

\* The values given to createSecret and updateSecret against the mock client.
WrittenValues ==
    {JsString(<<>>), JsString(<<"a", "\"">>), JsString(ValidJsonText),
     JsNumber(0), JsNumber(10),
     JsArray(<<JsNumber(1), JsString(<<"a", "\"">>)>>),
     ObjectOf(<< <<<<"a">>, JsString(<<"\\">>)>>, <<<<"0">>, JsArray(<<>>)>> >>, 2),
     JsArray(<<ObjectOf(<< <<<<"\"">>, JsNumber(1)>> >>, 1)>>)}

\* The options argument of createSecret and updateSecret (omitted, it is {}).
SecretOptionsArgs ==
    {[description |-> None, tags |-> None],
     [description |-> Some("d"), tags |-> Some(<<[Key |-> "k", Value |-> "v"]>>)]}

\* What CreateSecret and UpdateSecret resolve with: no ARN, an empty one, an ARN.
WriteSecretAnswers ==
    {Resolved([ARN |-> a]) : a \in {None, Some(""), Some("arn:s1")}}
    \cup {Rejected(e) : e \in Rejections}

\* What DescribeSecret resolves with, for secretExists: the secret's metadata.
DescribeSecretResponses == {[ARN |-> Some("arn:s1"), Tags |-> None]}

DescribeSecretAnswers ==
    {Resolved(r) : r \in DescribeSecretResponses} \cup {Rejected(e) : e \in Rejections}

\* The options argument of listSecrets: omitted, or an object.
ListSecretsOptionsArgs ==
    {None,
     Some([maxResults |-> None, nextToken |-> None, filters |-> None]),
     Some([maxResults |-> Some(1), nextToken |-> Some("t1"),
           filters |-> Some(BatchFilters)])}

\* The entries of a SecretList: without a name, with an empty one, with a name.
SecretListEntries == {[Name |-> n] : n \in {None, Some(""), Some("s1"), Some("s2")}}

\* What ListSecrets resolves with.
ListSecretsResponses ==
    {[SecretList |-> l, NextToken |-> t] :
        l \in {None} \cup {Some(x) : x \in SeqsUpTo(SecretListEntries, MaxEntries)},
        t \in {None, Some(""), Some("t2")}}

ListSecretsAnswers ==
    {Resolved(r) : r \in ListSecretsResponses} \cup {Rejected(e) : e \in Rejections}

\* The mappings given to tagSecret: the objects of at most MaxEntries members,
\* each with a value (possibly empty); the key "1" is integer-like.
TagKeys == {"env", "team", "1"}
TagValues == {"prod", ""}
TagMappings ==
    {TagMappingOf(ms, Len(ms)) : ms \in SeqsUpTo(TagKeys \X TagValues, MaxEntries)}

\* What TagResource resolves with.
TagResourceAnswers == {Resolved([ok |-> TRUE])} \cup {Rejected(e) : e \in Rejections}

\* The entries of a Versions list.
VersionEntries ==
    {[VersionId |-> Some("v1"), CreatedDate |-> Some("2024-01-01"),
      VersionStages |-> Some(<<"AWSCURRENT">>)],
     [VersionId |-> Some("v2"), CreatedDate |-> None,
      VersionStages |-> Some(<<"AWSPREVIOUS">>)],
     [VersionId |-> None, CreatedDate |-> Some("2024-01-02"),
      VersionStages |-> None],
     [VersionId |-> Some(""), CreatedDate |-> None,
      VersionStages |-> Some(<<"AWSPENDING", "AWSCURRENT">>)],
     [VersionId |-> Some("v3"), CreatedDate |-> None,
      VersionStages |-> Some(<<>>)]}

\* What ListSecretVersionIds resolves with.
ListSecretVersionIdsResponses ==
    {[Versions |-> v] :
        v \in {None} \cup {Some(x) : x \in SeqsUpTo(VersionEntries, MaxEntries)}}

GetSecretVersionsAnswers ==
    {Resolved(r) : r \in ListSecretVersionIdsResponses}
    \cup {Rejected(e) : e \in Rejections}

\* The entries of a Tags list: a tag, a tag with an empty value, another value
\* for a key, a tag without a key.
TagListEntries ==
    {[Key |-> Some("env"), Value |-> Some("prod")],
     [Key |-> Some("team"), Value |-> Some("")],
     [Key |-> Some("env"), Value |-> Some("dev")],
     [Key |-> Some("team"), Value |-> Some("core")],
     [Key |-> None, Value |-> Some("prod")]}

\* What DescribeSecret resolves with, for getTags.
DescribeSecretTagsResponses ==
    {[ARN |-> Some("arn:s1"), Tags |-> t] :
        t \in {None} \cup {Some(x) : x \in SeqsUpTo(TagListEntries, MaxEntries)}}

GetTagsAnswers ==
    {Resolved(r) : r \in DescribeSecretTagsResponses}
    \cup {Rejected(e) : e \in Rejections}

(***************************************************************************)
(* The facade against a client whose answers are arbitrary (the tests'     *)
(* mock client).  A method runs in two steps: up to its await (the command *)
(* is built and sent), and from the answer to the settled promise.  The    *)
(* caller then resumes with the outcome; the facade keeps nothing of the   *)
(* call (its only field is the client).                                    *)
(***************************************************************************)
Init ==
    /\ pc = "idle"
    /\ call = [op |-> "none"]
    /\ request = None
    /\ response = None
    /\ outcome = None
    /\ store = None
    /\ created = None
    /\ pages = <<>>
    /\ received = <<>>
    /\ client = Some(constructor(None, None))
    /\ config = None
    /\ env = None
    /\ slots = <<>>

Send(c, r) ==
    /\ pc' = "awaiting"
    /\ call' = c
    /\ request' = Some(r)
    /\ response' = None
    /\ outcome' = None

\* A variant of Settle that sends the request again when it was throttled.
Settle_RetryThrottled(answer, o) ==
    IF answer.rejected /\ answer.error[1].name = "ThrottlingException"
       /\ Len(request) < 2
    THEN /\ pc' = "awaiting"
         /\ request' = Append(request, request[1])
         /\ UNCHANGED <<call, response, outcome>>
    ELSE /\ pc' = "done"
         /\ response' = Some(answer)
         /\ outcome' = Some(o)
         /\ UNCHANGED <<call, request>>

Settle(answer, o) ==
    /\ pc' = "done"
    /\ response' = Some(answer)
    /\ outcome' = Some(o)
    /\ UNCHANGED <<call, request>>

\* The caller's await resumes with the settled promise; nothing is in flight.
CallerResumes ==
    /\ pc = "done"
    /\ pc' = "idle"
    /\ call' = [op |-> "none"]
    /\ request' = None
    /\ response' = None
    /\ outcome' = None
    /\ UNCHANGED <<store, created, pages, received, client, config, env, slots>>

GetSecretCall ==
    /\ pc = "idle"
    /\ \E secretName \in Names, options \in GetSecretOptionsArgs :
           Send([op |-> "getSecret", secretName |-> secretName, options |-> options],
                GetSecretRequest(secretName, options))
    /\ UNCHANGED <<store, created, pages, received, client, config, env, slots>>

GetSecretSettle ==
    /\ pc = "awaiting"
    /\ call.op = "getSecret"
    /\ \E answer \in GetSecretValueAnswers :
           Settle(answer, getSecret(call.secretName, call.options, answer))
    /\ UNCHANGED <<store, created, pages, received, client, config, env, slots>>

BatchGetSecretsCall ==
    /\ pc = "idle"
    /\ \E options \in BatchOptionsArgs :
           Send([op |-> "batchGetSecrets", options |-> options],
                BatchGetSecretsRequest(options))
    /\ UNCHANGED <<store, created, pages, received, client, config, env, slots>>

BatchGetSecretsSettle ==
    /\ pc = "awaiting"
    /\ call.op = "batchGetSecrets"
    /\ \E answer \in BatchGetSecretValueAnswers :
           Settle(answer, batchGetSecrets(call.options, answer))
    /\ UNCHANGED <<store, created, pages, received, client, config, env, slots>>

DeleteSecretCall ==
    /\ pc = "idle"
    /\ \E secretName \in Names, options \in DeleteSecretOptionsArgs :
           Send([op |-> "deleteSecret", secretName |-> secretName, options |-> options],
                DeleteSecretRequest(secretName, options))
    /\ UNCHANGED <<store, created, pages, received, client, config, env, slots>>

DeleteSecretSettle ==
    /\ pc = "awaiting"
    /\ call.op = "deleteSecret"
    /\ \E answer \in DeleteSecretAnswers : Settle(answer, deleteSecret(answer))
    /\ UNCHANGED <<store, created, pages, received, client, config, env, slots>>

CreateSecretCall ==
    /\ pc = "idle"
    /\ \E secretName \in Names, secretValue \in WrittenValues,
          options \in SecretOptionsArgs :
           Send([op |-> "createSecret", secretName |-> secretName,
                 secretValue |-> secretValue, options |-> options],
                CreateSecretRequest(secretName, secretValue, options))
    /\ UNCHANGED <<store, created, pages, received, client, config, env, slots>>

CreateSecretSettle ==
    /\ pc = "awaiting"
    /\ call.op = "createSecret"
    /\ \E answer \in WriteSecretAnswers :
           Settle(answer, createSecret(call.secretName, answer))
    /\ UNCHANGED <<store, created, pages, received, client, config, env, slots>>

UpdateSecretCall ==
    /\ pc = "idle"
    /\ \E secretName \in Names, secretValue \in WrittenValues,
          options \in SecretOptionsArgs :
           Send([op |-> "updateSecret", secretName |-> secretName,
                 secretValue |-> secretValue, options |-> options],
                UpdateSecretRequest(secretName, secretValue, options))
    /\ UNCHANGED <<store, created, pages, received, client, config, env, slots>>

UpdateSecretSettle ==
    /\ pc = "awaiting"
    /\ call.op = "updateSecret"
    /\ \E answer \in WriteSecretAnswers :
           Settle(answer, updateSecret(call.secretName, answer))
    /\ UNCHANGED <<store, created, pages, received, client, config, env, slots>>

SecretExistsCall ==
    /\ pc = "idle"
    /\ \E secretName \in Names :
           Send([op |-> "secretExists", secretName |-> secretName],
                DescribeSecretRequest(secretName))
    /\ UNCHANGED <<store, created, pages, received, client, config, env, slots>>

SecretExistsSettle ==
    /\ pc = "awaiting"
    /\ call.op = "secretExists"
    /\ \E answer \in DescribeSecretAnswers : Settle(answer, secretExists(answer))
    /\ UNCHANGED <<store, created, pages, received, client, config, env, slots>>

ListSecretsCall ==
    /\ pc = "idle"
    /\ \E options \in ListSecretsOptionsArgs :
           Send([op |-> "listSecrets", options |-> options],
                ListSecretsRequest(options))
    /\ UNCHANGED <<store, created, pages, received, client, config, env, slots>>

ListSecretsSettle ==
    /\ pc = "awaiting"
    /\ call.op = "listSecrets"
    /\ \E answer \in ListSecretsAnswers : Settle(answer, listSecrets(answer))
    /\ UNCHANGED <<store, created, pages, received, client, config, env, slots>>

TagSecretCall ==
    /\ pc = "idle"
    /\ \E secretName \in Names, tags \in TagMappings :
           Send([op |-> "tagSecret", secretName |-> secretName, tags |-> tags],
                TagSecretRequest(secretName, tags))
    /\ UNCHANGED <<store, created, pages, received, client, config, env, slots>>

TagSecretSettle ==
    /\ pc = "awaiting"
    /\ call.op = "tagSecret"
    /\ \E answer \in TagResourceAnswers :
           Settle(answer, tagSecret(call.secretName, call.tags, answer))
    /\ UNCHANGED <<store, created, pages, received, client, config, env, slots>>

GetSecretVersionsCall ==
    /\ pc = "idle"
    /\ \E secretName \in Names :
           Send([op |-> "getSecretVersions", secretName |-> secretName],
                GetSecretVersionsRequest(secretName))
    /\ UNCHANGED <<store, created, pages, received, client, config, env, slots>>

GetSecretVersionsSettle ==
    /\ pc = "awaiting"
    /\ call.op = "getSecretVersions"
    /\ \E answer \in GetSecretVersionsAnswers :
           Settle(answer, getSecretVersions(answer))
    /\ UNCHANGED <<store, created, pages, received, client, config, env, slots>>

GetTagsCall ==
    /\ pc = "idle"
    /\ \E secretName \in Names :
           Send([op |-> "getTags", secretName |-> secretName],
                DescribeSecretRequest(secretName))
    /\ UNCHANGED <<store, created, pages, received, client, config, env, slots>>

GetTagsSettle ==
    /\ pc = "awaiting"
    /\ call.op = "getTags"
    /\ \E answer \in GetTagsAnswers :
           Settle(answer, getTags(call.secretName, answer))
    /\ UNCHANGED <<store, created, pages, received, client, config, env, slots>>

Next ==
    \/ GetSecretCall
    \/ GetSecretSettle
    \/ BatchGetSecretsCall
    \/ BatchGetSecretsSettle
    \/ DeleteSecretCall
    \/ DeleteSecretSettle
    \/ CreateSecretCall
    \/ CreateSecretSettle
    \/ UpdateSecretCall
    \/ UpdateSecretSettle
    \/ SecretExistsCall
    \/ SecretExistsSettle
    \/ ListSecretsCall
    \/ ListSecretsSettle
    \/ TagSecretCall
    \/ TagSecretSettle
    \/ GetSecretVersionsCall
    \/ GetSecretVersionsSettle
    \/ GetTagsCall
    \/ GetTagsSettle
    \/ CallerResumes

Spec == Init /\ [][Next]_vars

(***************************************************************************)
(* The round trip: createSecret then getSecret of the same name, against a *)
(* service that stores the SecretString it is sent, unchanged, and serves  *)
(* it back.                                                                *)
(***************************************************************************)
RoundTripName == "s1"

RoundTripGetOptions ==
    {None, Some([parse |-> Some(FALSE), version |-> None]),
     Some([parse |-> Some(TRUE), version |-> None]),
     Some([parse |-> None, version |-> Some("v1")])}

ServiceUnavailable ==
    Thrown("Error", "InternalServiceError", <<"Service", "unavailable">>)
NoSuchSecret ==
    Thrown("Error", "ResourceNotFoundException",
           <<"Secrets", "Manager", "can't", "find", "the", "specified", "secret", ".">>)

RoundTripCreateCall ==
    /\ pc = "idle"
    /\ \E secretValue \in SecretValues :
           /\ Send([op |-> "createSecret", secretName |-> RoundTripName,
                    secretValue |-> secretValue,
                    options |-> [description |-> None, tags |-> None]],
                   CreateSecretRequest(RoundTripName, secretValue,
                                       [description |-> None, tags |-> None]))
           /\ created' = Some(secretValue)
    /\ UNCHANGED <<store, pages, received, client, config, env, slots>>

\* The service stores the SecretString of the request and returns an ARN.
RoundTripCreateStored ==
    /\ pc = "awaiting"
    /\ call.op = "createSecret"
    /\ LET answer == Resolved([ARN |-> Some("arn:s1")])
       IN  Settle(answer, createSecret(call.secretName, answer))
    /\ store' = Some(request[1].SecretString)
    /\ UNCHANGED <<created, pages, received, client, config, env, slots>>

\* The service fails the request and stores nothing.
RoundTripCreateFailed ==
    /\ pc = "awaiting"
    /\ call.op = "createSecret"
    /\ LET answer == Rejected(ServiceUnavailable)
       IN  Settle(answer, createSecret(call.secretName, answer))
    /\ UNCHANGED <<store, created, pages, received, client, config, env, slots>>

RoundTripGetCall ==
    /\ pc = "done"
    /\ call.op = "createSecret"
    /\ \E options \in RoundTripGetOptions :
           Send([op |-> "getSecret", secretName |-> RoundTripName,
                 options |-> options],
                GetSecretRequest(RoundTripName, options))
    /\ UNCHANGED <<store, created, pages, received, client, config, env, slots>>

\* The service serves the stored SecretString, or reports that there is none.
RoundTripGetSettle ==
    /\ pc = "awaiting"
    /\ call.op = "getSecret"
    /\ LET answer == IF store # None
                     THEN Resolved([SecretString |-> store, SecretBinary |-> None])
                     ELSE Rejected(NoSuchSecret)
       IN  Settle(answer, getSecret(call.secretName, call.options, answer))
    /\ UNCHANGED <<store, created, pages, received, client, config, env, slots>>

RoundTripNext ==
    \/ RoundTripCreateCall
    \/ RoundTripCreateStored
    \/ RoundTripCreateFailed
    \/ RoundTripGetCall
    \/ RoundTripGetSettle

RoundTripSpec == Init /\ [][RoundTripNext]_vars

(***************************************************************************)
(* The facade against a paging service: a caller fetches a batch page by    *)
(* page, giving each call the nextToken of the previous result, until a     *)
(* result has no nextToken (or a call throws).                              *)
(***************************************************************************)
\* The token the service hands out for page i (i > 1).
PageTokens == <<"t1", "t2", "t3", "t4", "t5">>
Token(i) == PageTokens[i]

\* The entries a page can hold: one named secret with a text.
PageEntries ==
    {<<[Name |-> Some(n), SecretString |-> Some(t), SecretBinary |-> None]>> :
        n \in Names, t \in {<<"a">>, ValidJsonText}}

\* The paged answers of a service with n pages: each page but the last carries
\* the token of the next one; the last carries none, or an empty one.
PagedResponses(n) ==
    {[i \in 1..n |->
         [SecretValues |-> Some(f[i]), Errors |-> None,
          NextToken |-> IF i < n THEN Some(Token(i + 1)) ELSE last]] :
        f \in [1..n -> PageEntries], last \in {None, Some("")}}

\* The page a request asks for: the first without a token, the page of the
\* token otherwise (0 when the service never handed out that token).
PageOfToken(nextToken) ==
    IF nextToken = None THEN 1
    ELSE IF \E i \in 2..Len(pages) : Token(i) = nextToken[1]
         THEN CHOOSE i \in 2..Len(pages) : Token(i) = nextToken[1]
         ELSE 0

InvalidNextToken ==
    Thrown("Error", "InvalidNextTokenException", <<"The", "token", "is", "invalid", ".">>)

\* The token the caller holds: the nextToken of the last result, if any.
HeldToken == IF received = <<>> THEN None ELSE received[Len(received)].nextToken

\* The loop is over: the last result has no nextToken.
PagingEnded == pc = "idle" /\ received # <<>> /\ HeldToken = None

PagingOptions(nextToken) ==
    [secretIds |-> <<"s1", "s2">>, filters |-> None, maxResults |-> Some(1),
     nextToken |-> nextToken, parse |-> None]

PagingInit ==
    /\ pc = "idle"
    /\ call = [op |-> "none"]
    /\ request = None
    /\ response = None
    /\ outcome = None
    /\ store = None
    /\ created = None
    /\ pages \in UNION {PagedResponses(n) : n \in 1..MaxPages}
    /\ received = <<>>
    /\ client = Some(constructor(None, None))
    /\ config = None
    /\ env = None
    /\ slots = <<>>

\* The caller calls batchGetSecrets with the token it holds.  The number of
\* calls is capped one above the number of pages.
PagingCall ==
    /\ pc = "idle"
    /\ ~PagingEnded
    /\ Len(received) <= Len(pages)
    /\ Send([op |-> "batchGetSecrets", options |-> PagingOptions(HeldToken)],
            BatchGetSecretsRequest(PagingOptions(HeldToken)))
    /\ UNCHANGED <<store, created, pages, received, client, config, env, slots>>

\* The service answers with the page of the request's NextToken.
PagingSettle ==
    /\ pc = "awaiting"
    /\ call.op = "batchGetSecrets"
    /\ LET i == PageOfToken(request[1].NextToken)
           answer == IF i = 0 THEN Rejected(InvalidNextToken) ELSE Resolved(pages[i])
       IN  Settle(answer, batchGetSecrets(call.options, answer))
    /\ UNCHANGED <<store, created, pages, received, client, config, env, slots>>

\* The caller's await resumes: it keeps the result, or stops on an error.
PagingResume ==
    /\ pc = "done"
    /\ IF outcome[1].threw
       THEN pc' = "stopped" /\ UNCHANGED received
       ELSE pc' = "idle" /\ received' = Append(received, outcome[1].value[1])
    /\ UNCHANGED <<call, request, response, outcome, store, created, pages, client, config, env, slots>>

PagingNext ==
    \/ PagingCall
    \/ PagingSettle
    \/ PagingResume

\* The caller's loop and the service keep running: a step that can be taken is
\* taken.
PagingSpec == PagingInit /\ [][PagingNext]_vars /\ WF_vars(PagingNext)

(***************************************************************************)
(* Construction: the constructor is given a config, in an environment.    *)
(***************************************************************************)
\* The credentials object a caller gives.
CredentialsObject == [accessKeyId |-> "AK2", secretAccessKey |-> "SK2"]

\* The config argument: omitted, or an object with each field set or not,
\* empty strings included.
ConfigArgs ==
    {None} \cup
    {Some([region |-> r, accessKeyId |-> k, secretAccessKey |-> s, credentials |-> c]) :
        r \in {None, Some(""), Some("eu-west-1")},
        k \in {None, Some(""), Some("AK1")},
        s \in {None, Some(""), Some("SK1")},
        c \in {None, Some(CredentialsObject)}}

\* process.env.AWS_REGION: unset, empty, set.
EnvRegions == {None, Some(""), Some("ap-south-1")}

ConstructInit ==
    /\ pc = "idle"
    /\ call = [op |-> "none"]
    /\ request = None
    /\ response = None
    /\ outcome = None
    /\ store = None
    /\ created = None
    /\ pages = <<>>
    /\ received = <<>>
    /\ client = None
    /\ config \in ConfigArgs
    /\ env \in EnvRegions
    /\ slots = <<>>

\* new AWSSecretsManager(config)
Construct ==
    /\ client = None
    /\ client' = Some(constructor(config, env))
    /\ UNCHANGED <<pc, call, request, response, outcome, store, created, pages,
                   received, config, env, slots>>

ConstructSpec == ConstructInit /\ [][Construct]_vars

(***************************************************************************)
(* Concurrency: several callers share one facade; each has at most one     *)
(* call in flight, and the calls interleave freely at their awaits.        *)
(***************************************************************************)
Callers == 1..MaxCallers

IdleSlot ==
    [pc |-> "idle", call |-> [op |-> "none"], request |-> None, response |-> None,
     outcome |-> None]

\* The invocations the callers make.
ConcurrentGetSecretCalls ==
    {[op |-> "getSecret", secretName |-> n, options |-> None] : n \in Names}

ConcurrentBatchCalls ==
    {[op |-> "batchGetSecrets",
      options |-> [secretIds |-> <<"s1">>, filters |-> None, maxResults |-> Some(1),
                   nextToken |-> None, parse |-> Some(TRUE)]],
     [op |-> "batchGetSecrets",
      options |-> [secretIds |-> <<"s2">>, filters |-> None, maxResults |-> None,
                   nextToken |-> Some("t1"), parse |-> None]]}

Throttled ==
    Thrown("Error", "ThrottlingException", <<"Rate", "exceeded">>)

\* What the client answers a GetSecretValue with.
ConcurrentGetSecretAnswers ==
    {Resolved([SecretString |-> Some(ValidJsonText), SecretBinary |-> None]),
     Resolved([SecretString |-> None, SecretBinary |-> Some("bytes")]),
     Rejected(Throttled)}

\* What the client answers a BatchGetSecretValue with.
ConcurrentBatchAnswers ==
    {Resolved([SecretValues |-> Some(<<[Name |-> Some("s1"),
                                        SecretString |-> Some(ValidJsonText),
                                        SecretBinary |-> None]>>),
               Errors |-> None, NextToken |-> Some("t2")]),
     Resolved([SecretValues |-> Some(<<[Name |-> Some("s2"),
                                        SecretString |-> Some(<<"a">>),
                                        SecretBinary |-> None]>>),
               Errors |-> Some(<<ErrorDenied>>), NextToken |-> None]),
     Resolved([SecretValues |-> None, Errors |-> Some(<<ErrorNotFound>>),
               NextToken |-> None]),
     Rejected(Throttled)}

ConcurrentInit ==
    /\ pc = "idle"
    /\ call = [op |-> "none"]
    /\ request = None
    /\ response = None
    /\ outcome = None
    /\ store = None
    /\ created = None
    /\ pages = <<>>
    /\ received = <<>>
    /\ client = Some(constructor(None, None))
    /\ config = None
    /\ env = None
    /\ slots = [c \in Callers |-> IdleSlot]

\* Caller c's call runs up to its await.
SlotSend(c, invocation, r) ==
    /\ slots[c].pc = "idle"
    /\ slots' = [slots EXCEPT ![c] =
                    [pc |-> "awaiting", call |-> invocation, request |-> Some(r),
                     response |-> None, outcome |-> None]]
    /\ UNCHANGED <<pc, call, request, response, outcome, store, created, pages,
                   received, client, config, env>>

\* Caller c's call runs from the answer to the settled promise.
SlotSettle(c, answer, o) ==
    /\ slots' = [slots EXCEPT ![c] =
                    [pc |-> "done", call |-> slots[c].call,
                     request |-> slots[c].request, response |-> Some(answer),
                     outcome |-> Some(o)]]
    /\ UNCHANGED <<pc, call, request, response, outcome, store, created, pages,
                   received, client, config, env>>

ConcurrentGetSecretCall ==
    \E c \in Callers, invocation \in ConcurrentGetSecretCalls :
        SlotSend(c, invocation,
                 GetSecretRequest(invocation.secretName, invocation.options))

ConcurrentGetSecretSettle ==
    \E c \in Callers :
        /\ slots[c].pc = "awaiting"
        /\ slots[c].call.op = "getSecret"
        /\ \E answer \in ConcurrentGetSecretAnswers :
               SlotSettle(c, answer,
                          getSecret(slots[c].call.secretName, slots[c].call.options,
                                    answer))

ConcurrentBatchCall ==
    \E c \in Callers, invocation \in ConcurrentBatchCalls :
        SlotSend(c, invocation, BatchGetSecretsRequest(invocation.options))

ConcurrentBatchSettle ==
    \E c \in Callers :
        /\ slots[c].pc = "awaiting"
        /\ slots[c].call.op = "batchGetSecrets"
        /\ \E answer \in ConcurrentBatchAnswers :
               SlotSettle(c, answer, batchGetSecrets(slots[c].call.options, answer))

\* Caller c takes the settled promise; its next call can start.
ConcurrentResume ==
    \E c \in Callers :
        /\ slots[c].pc = "done"
        /\ slots' = [slots EXCEPT ![c] = IdleSlot]
        /\ UNCHANGED <<pc, call, request, response, outcome, store, created, pages,
                       received, client, config, env>>

ConcurrentNext ==
    \/ ConcurrentGetSecretCall
    \/ ConcurrentGetSecretSettle
    \/ ConcurrentBatchCall
    \/ ConcurrentBatchSettle
    \/ ConcurrentResume

ConcurrentSpec == ConcurrentInit /\ [][ConcurrentNext]_vars

(***************************************************************************)
(* Properties.                                                             *)
(***************************************************************************)
GetSecretDone == pc = "done" /\ call.op = "getSecret"
BatchGetSecretsDone == pc = "done" /\ call.op = "batchGetSecrets"

\* The promise settled by throwing a SecretsManagerError with this message.
ThrewMessage(message) ==
    /\ outcome[1].threw
    /\ InstanceOfSecretsManagerError(outcome[1].error[1])
    /\ outcome[1].error[1].message = message

\* C1: when GetSecretValue resolves with no SecretString and a SecretBinary,
\* getSecret throws the SecretsManagerError 'Binary secrets are not supported'.
C1_BinaryIsUnsupportedFormat ==
    (/\ GetSecretDone
     /\ ~response[1].rejected
     /\ response[1].body[1].SecretString = None
     /\ response[1].body[1].SecretBinary # None)
    => ThrewMessage(BinaryNotSupported)

\* C2: a string given to createSecret and stored unchanged comes back from
\* getSecret(name, {parse: false}) exactly as given, the empty string included.
C2_StringRoundTrip ==
    (/\ GetSecretDone
     /\ store # None
     /\ TypeofString(created[1])
     /\ call.options = Some([parse |-> Some(FALSE), version |-> None]))
    => outcome[1] = Return(created[1])

\* C3: a structure (any value that is not a string) given to createSecret and
\* stored unchanged comes back from getSecret(name), options omitted, as a value
\* deep-equal to the one given.
C3_StructureRoundTrip ==
    (/\ GetSecretDone
     /\ store # None
     /\ ~TypeofString(created[1])
     /\ call.options = None)
    => /\ ~outcome[1].threw
       /\ DeepEqual(outcome[1].value[1], created[1])

\* A nested structure, with a string that needs escaping, made the round trip.
C3_Witness ==
    /\ GetSecretDone
    /\ store # None
    /\ call.options = None
    /\ created[1].t = "array"
    /\ Len(created[1].vs) = 1
    /\ created[1].vs[1].t = "object"
    /\ created[1].vs[1].ks = << <<"1">>, <<"\"">> >>
    /\ created[1].vs[1].vs[2] = JsString(<<"a", "\"">>)
    /\ ~outcome[1].threw

\* C4: whenever the caller does not set parse (options omitted, or given
\* without parse), a SecretString that is valid JSON is returned parsed.
C4_ParseDefaultsToTrue ==
    (/\ GetSecretDone
     /\ ~response[1].rejected
     /\ TruthyText(response[1].body[1].SecretString)
     /\ JsonParse(response[1].body[1].SecretString[1]).ok
     /\ (call.options = None \/ call.options[1].parse = None))
    => outcome[1] = Return(JsonParse(response[1].body[1].SecretString[1]).v)

\* C5: with parse true, a SecretString that is not valid JSON is returned as the
\* raw string and the call does not fail: by getSecret, and by batchGetSecrets
\* for every entry of a value list whose entries are all named texts (the last
\* entry of a name is the one the result holds).
C5_ParseFailureYieldsRawString ==
    /\ (/\ GetSecretDone
        /\ ~response[1].rejected
        /\ response[1].body[1].SecretString # None
        /\ ~JsonParse(response[1].body[1].SecretString[1]).ok
        /\ (call.options = None \/ call.options[1].parse = Some(TRUE)))
       => outcome[1] = Return(JsString(response[1].body[1].SecretString[1]))
    /\ (/\ BatchGetSecretsDone
        /\ ~response[1].rejected
        /\ call.options.parse = Some(TRUE)
        /\ response[1].body[1].SecretValues # None
        /\ \A sv \in {response[1].body[1].SecretValues[1][i] :
                         i \in 1..Len(response[1].body[1].SecretValues[1])} :
               sv.Name # None /\ sv.SecretString # None)
       => /\ ~outcome[1].threw
          /\ LET values == response[1].body[1].SecretValues[1] IN
             \A i \in 1..Len(values) :
                 (/\ ~JsonParse(values[i].SecretString[1]).ok
                  /\ \A j \in (i + 1)..Len(values) : values[j].Name # values[i].Name)
                 => /\ values[i].Name[1] \in DOMAIN outcome[1].value[1].secrets
                    /\ outcome[1].value[1].secrets[values[i].Name[1]]
                           = JsString(values[i].SecretString[1])

\* The failure conditions of C6, on what the send rejected with.
IsMarkedForDeletion(e) ==
    /\ InstanceOfError(e)
    /\ e.name = "InvalidRequestException"
    /\ Includes(e.message, MarkedForDeletion)
IsNotFound(e) == InstanceOfError(e) /\ e.name = "ResourceNotFoundException"
IsAccessDenied(e) == InstanceOfError(e) /\ e.name = "AccessDeniedException"
IsThrottling(e) == InstanceOfError(e) /\ e.name = "ThrottlingException"

\* C6: when the send of getSecret rejects, the error thrown is the one of the
\* condition met: marked for deletion, not found (its message holds the
\* requested name), access denied, throttling, and 'Failed to retrieve secret'
\* for every other failure; one mapping only applies, and the error thrown
\* carries the rejection as originalError whenever the rejection is an Error.
C6_GetSecretErrorMapping ==
    (GetSecretDone /\ response[1].rejected)
    => LET e == response[1].error[1]
           thrown == outcome[1].error[1]
       IN  /\ outcome[1].threw
           /\ InstanceOfSecretsManagerError(thrown)
           /\ IsMarkedForDeletion(e) => thrown.message = SecretMarkedForDeletion
           /\ IsNotFound(e) =>
                  /\ thrown.message = SecretNotFound(call.secretName)
                  /\ thrown.message[2] = call.secretName
           /\ IsAccessDenied(e) => thrown.message = AccessDenied
           /\ IsThrottling(e) => thrown.message = RequestThrottled
           /\ ~(IsMarkedForDeletion(e) \/ IsNotFound(e) \/ IsAccessDenied(e)
                \/ IsThrottling(e))
              => thrown.message = FailedToRetrieveSecret
           /\ Cardinality({c \in {"deleted", "notFound", "denied", "throttled"} :
                  \/ c = "deleted" /\ IsMarkedForDeletion(e)
                  \/ c = "notFound" /\ IsNotFound(e)
                  \/ c = "denied" /\ IsAccessDenied(e)
                  \/ c = "throttled" /\ IsThrottling(e)}) <= 1
           /\ thrown.originalError = (IF InstanceOfError(e) THEN Some(e) ELSE None)

\* An InvalidRequestException that is not about deletion fell through to
\* 'Failed to retrieve secret', wrapping the rejection.
C6_Witness ==
    /\ GetSecretDone
    /\ response[1].rejected
    /\ response[1].error[1] =
           Thrown("Error", "InvalidRequestException",
                  <<"marked", "for", "later", "deletion">>)
    /\ outcome[1].threw
    /\ outcome[1].error[1].message = FailedToRetrieveSecret
    /\ outcome[1].error[1].originalError = Some(response[1].error[1])

\* An entry that carries only a binary payload.
BinaryOnly(sv) == sv.SecretString = None /\ sv.SecretBinary # None

\* C7: whenever the value list of the response holds an entry that carries only
\* a binary payload, batchGetSecrets throws 'Binary secrets are not supported',
\* whatever else the response holds.
C7_BatchBinaryFailsTheCall ==
    (/\ BatchGetSecretsDone
     /\ ~response[1].rejected
     /\ response[1].body[1].SecretValues # None
     /\ \E i \in 1..Len(response[1].body[1].SecretValues[1]) :
            BinaryOnly(response[1].body[1].SecretValues[1][i]))
    => ThrewMessage(BinaryNotSupported)

\* The value list and the error list of a response, absent lists being empty.
ValuesOf(resp) == IF resp.SecretValues = None THEN <<>> ELSE resp.SecretValues[1]
ErrorsOf(resp) == IF resp.Errors = None THEN <<>> ELSE resp.Errors[1]

\* The records result.errors is to hold for an error list.
ErrorRecords(errors) ==
    [i \in 1..Len(errors) |->
        [secretId |-> errors[i].SecretId, errorCode |-> errors[i].ErrorCode,
         errorMessage |-> errors[i].Message]]

\* C8: after a successful call on a response whose entries each carry a payload
\* (a SecretString or a SecretBinary), the keys of result.secrets are exactly the
\* names of the entries of the value list, each bound to the value of an entry
\* of that name (its text, parsed when parse is true), and result.errors holds
\* exactly the entries of the error list; an id in neither list is in neither.
C8_BatchPartitionsTheResponse ==
    (/\ BatchGetSecretsDone
     /\ ~outcome[1].threw
     /\ \A i \in 1..Len(ValuesOf(response[1].body[1])) :
            \/ ValuesOf(response[1].body[1])[i].SecretString # None
            \/ ValuesOf(response[1].body[1])[i].SecretBinary # None)
    => LET values == ValuesOf(response[1].body[1])
           named == {i \in 1..Len(values) : values[i].Name # None}
           result == outcome[1].value[1]
       IN  /\ DOMAIN result.secrets = {values[i].Name[1] : i \in named}
           /\ \A k \in DOMAIN result.secrets :
                  \E i \in named :
                      /\ values[i].Name[1] = k
                      /\ values[i].SecretString # None
                      /\ result.secrets[k] =
                             IF call.options.parse = Some(TRUE)
                             THEN parseSecretValue(values[i].SecretString[1])
                             ELSE JsString(values[i].SecretString[1])
           /\ result.errors = ErrorRecords(ErrorsOf(response[1].body[1]))

\* C9 as claimed: whenever the call itself succeeded and the response lists
\* failures, batchGetSecrets does not throw and result.errors holds one record
\* per failure, in the order of the response.
C9_ItemErrorsNeverRaise ==
    (/\ BatchGetSecretsDone
     /\ ~response[1].rejected
     /\ ErrorsOf(response[1].body[1]) # <<>>)
    => /\ ~outcome[1].threw
       /\ outcome[1].value[1].errors = ErrorRecords(ErrorsOf(response[1].body[1]))

\* A named entry with a binary payload and no text: the one thing in a response
\* that makes batchGetSecrets throw.
NamedBinary(sv) ==
    /\ sv.Name # None
    /\ sv.Name[1] # ""
    /\ (sv.SecretString = None \/ sv.SecretString[1] = <<>>)
    /\ sv.SecretBinary # None

\* C9, amended: whenever the call itself succeeded and the response lists
\* failures, batchGetSecrets throws only for a named entry that carries a
\* binary payload and no text, and then 'Binary secrets are not supported';
\* otherwise it does not throw and result.errors holds one record per failure,
\* in the order of the response.
C9_ItemErrorsAreData ==
    (/\ BatchGetSecretsDone
     /\ ~response[1].rejected
     /\ ErrorsOf(response[1].body[1]) # <<>>)
    => LET values == ValuesOf(response[1].body[1]) IN
       IF \E i \in 1..Len(values) : NamedBinary(values[i])
       THEN ThrewMessage(BinaryNotSupported)
       ELSE /\ ~outcome[1].threw
            /\ outcome[1].value[1].errors
                   = ErrorRecords(ErrorsOf(response[1].body[1]))

\* Two failures were reported beside a secret, and came back as data, in order.
C9_Witness ==
    /\ BatchGetSecretsDone
    /\ ~response[1].rejected
    /\ response[1].body[1].Errors = Some(<<ErrorNotFound, ErrorDenied>>)
    /\ Len(ValuesOf(response[1].body[1])) = 1
    /\ ~outcome[1].threw
    /\ Len(outcome[1].value[1].errors) = 2
    /\ outcome[1].value[1].errors[1].secretId = Some("s2")
    /\ outcome[1].value[1].errors[2].secretId = Some("s1")
    /\ DOMAIN outcome[1].value[1].secrets = {"s1"}

\* The error kind a message stands for.
ErrorKind(message) ==
    CASE message = SecretMarkedForDeletion -> "InvalidState"
      [] message \in {SecretNotFound(n) : n \in Names} \cup {SecretsNotFound}
             -> "NotFound"
      [] message \in {AccessDenied, AccessDeniedToSecrets} -> "AccessDenied"
      [] message = RequestThrottled -> "Throttled"
      [] message = BinaryNotSupported -> "UnsupportedFormat"
      [] OTHER -> "Unknown"

\* C10: when its send rejects, batchGetSecrets throws an error of the kind
\* getSecret throws for the same rejection.
C10_BatchMapsFailuresLikeGetSecret ==
    (BatchGetSecretsDone /\ response[1].rejected)
    => /\ outcome[1].threw
       /\ \A secretName \in Names :
              ErrorKind(outcome[1].error[1].message)
                  = ErrorKind(getSecret(secretName, None, response[1]).error[1].message)

\* The secrets a page is to give: the text of its entry, under the entry's name.
PageSecrets(page) ==
    LET sv == page.SecretValues[1][1]
    IN  [k \in {sv.Name[1]} |-> JsString(sv.SecretString[1])]

\* The request carries the caller's nextToken unchanged.
TokenIsSent ==
    (call.op = "batchGetSecrets" /\ request # None)
    => request[1].NextToken = call.options.nextToken

\* The result carries the response's token when it is a non-empty one, and no
\* token otherwise.
TokenIsCopied ==
    (BatchGetSecretsDone /\ ~outcome[1].threw)
    => outcome[1].value[1].nextToken
           = (IF TruthyString(response[1].body[1].NextToken)
              THEN response[1].body[1].NextToken ELSE None)

\* The results received so far are the first pages of the service, in order.
PagesInOrder ==
    /\ Len(received) <= Len(pages)
    /\ \A i \in 1..Len(received) :
           /\ received[i].secrets = PageSecrets(pages[i])
           /\ received[i].errors = <<>>

\* C11: batchGetSecrets sends the caller's nextToken unchanged and its result
\* carries a nextToken exactly when the response carries a (non-empty) one,
\* equal to it; so a caller that calls again with the token it was returned
\* receives the pages of a service with finitely many pages in order, each
\* once, and its loop ends with a result that has no token, every page received.
C11_PaginationVisitsEveryPageOnce ==
    /\ [](TokenIsSent /\ TokenIsCopied /\ PagesInOrder)
    /\ <>(PagingEnded /\ Len(received) = Len(pages))

\* Three pages were fetched and the loop ended on the third, whose response
\* carried an empty token.
C11_Witness ==
    /\ PagingEnded
    /\ Len(pages) = 3
    /\ Len(received) = 3
    /\ pages[3].NextToken = Some("")
    /\ received[2].nextToken = Some("t3")

\* A delete request is in flight or was answered.
DeleteSecretSent == call.op = "deleteSecret" /\ request # None

\* C12: in every delete request sent, the force flag being true and a recovery
\* window being present never hold together; with forceDelete true the window is
\* absent whatever recoveryDays the caller gave.
C12_ForceExcludesRecoveryWindow ==
    DeleteSecretSent
    => /\ ~(/\ request[1].ForceDeleteWithoutRecovery = Some(TRUE)
            /\ request[1].RecoveryWindowInDays # None)
       /\ (call.options # None /\ call.options[1].forceDelete = Some(TRUE))
          => /\ request[1].ForceDeleteWithoutRecovery = Some(TRUE)
             /\ request[1].RecoveryWindowInDays = None

\* A forced deletion for which the caller also gave recoveryDays was sent, and
\* answered.
C12_Witness ==
    /\ pc = "done"
    /\ DeleteSecretSent
    /\ call.options = Some([forceDelete |-> Some(TRUE), recoveryDays |-> Some(7)])
    /\ request[1].RecoveryWindowInDays = None
    /\ ~outcome[1].threw

\* C13: without forceDelete the request carries a recovery window equal to the
\* recoveryDays the caller gave, whatever its value, and the default of 30 only
\* when the caller gave none.
C13_RecoveryWindowIsTheCallersDays ==
    (/\ DeleteSecretSent
     /\ (call.options = None \/ call.options[1].forceDelete # Some(TRUE)))
    => request[1].RecoveryWindowInDays
           = (IF call.options # None /\ call.options[1].recoveryDays # None
              THEN call.options[1].recoveryDays
              ELSE Some(DefaultRecoveryDays))

\* A create or an update request is in flight or was answered.
WriteSecretSent == call.op \in {"createSecret", "updateSecret"} /\ request # None

\* C14: createSecret and updateSecret send a string value unchanged as
\* SecretString and any other value as a JSON text of it (a text that parses to
\* a value deep-equal to it); on success each returns the ARN of the response,
\* and the caller's name only when the response has no (non-empty) ARN.
C14_WritesEncodeAlikeAndReturnTheArn ==
    WriteSecretSent
    => /\ IF TypeofString(call.secretValue)
          THEN request[1].SecretString = call.secretValue.s
          ELSE /\ JsonParse(request[1].SecretString).ok
               /\ DeepEqual(JsonParse(request[1].SecretString).v, call.secretValue)
       /\ (pc = "done" /\ ~response[1].rejected)
          => outcome[1] = Return(IF TruthyString(response[1].body[1].ARN)
                                 THEN response[1].body[1].ARN[1]
                                 ELSE call.secretName)

\* updateSecret sent an object as its JSON text, keys in property order, and
\* returned the caller's name, the response carrying no ARN.
C14_Witness ==
    /\ pc = "done"
    /\ call.op = "updateSecret"
    /\ call.secretValue.t = "object"
    /\ request[1].SecretString =
           <<"{", "\"", "0", "\"", ":", "[", "]", ",",
             "\"", "a", "\"", ":", "\"", "\\", "\\", "\"", "}">>
    /\ response[1] = Resolved([ARN |-> None])
    /\ outcome[1] = Return("s2")

\* The operations that wrap every failure alike, and the message of each.
WrappingOps ==
    {"createSecret", "updateSecret", "deleteSecret", "listSecrets", "tagSecret",
     "getSecretVersions"}

FailedMessage(op) ==
    CASE op = "createSecret" -> FailedToCreateSecret
      [] op = "updateSecret" -> FailedToUpdateSecret
      [] op = "deleteSecret" -> FailedToDeleteSecret
      [] op = "listSecrets" -> FailedToListSecrets
      [] op = "tagSecret" -> FailedToTagSecret
      [] op = "getSecretVersions" -> FailedToGetSecretVersions

\* C15: whatever the send of createSecret, updateSecret, deleteSecret,
\* listSecrets, tagSecret or getSecretVersions rejects with, the method throws
\* one SecretsManagerError with its own fixed 'Failed to ...' message, whatever
\* the name of the rejection, carrying the rejection as originalError whenever
\* the rejection is an Error.
C15_FailuresAreWrappedPerOperation ==
    (pc = "done" /\ call.op \in WrappingOps /\ response[1].rejected)
    => /\ ThrewMessage(FailedMessage(call.op))
       /\ outcome[1].error[1].originalError
              = (IF InstanceOfError(response[1].error[1])
                 THEN Some(response[1].error[1]) ELSE None)

\* tagSecret met a not-found rejection and wrapped it as 'Failed to tag secret'.
C15_Witness ==
    /\ pc = "done"
    /\ call.op = "tagSecret"
    /\ response[1].rejected
    /\ response[1].error[1].proto = "Error"
    /\ response[1].error[1].name = "ResourceNotFoundException"
    /\ outcome[1].threw
    /\ outcome[1].error[1].message = FailedToTagSecret
    /\ outcome[1].error[1].originalError = Some(response[1].error[1])

SecretExistsDone == pc = "done" /\ call.op = "secretExists"

\* C16: secretExists returns true when the lookup succeeds, false (without
\* throwing) when it fails with the not-found condition, and throws 'Failed to
\* check secret existence' on every other failure; it returns false for no
\* other failure.
C16_SecretExistsIsFalseOnlyOnNotFound ==
    SecretExistsDone
    => /\ ~response[1].rejected => outcome[1] = Return(TRUE)
       /\ (response[1].rejected /\ IsNotFound(response[1].error[1]))
          => outcome[1] = Return(FALSE)
       /\ (response[1].rejected /\ ~IsNotFound(response[1].error[1]))
          => ThrewMessage(FailedToCheckSecretExistence)
       /\ (~outcome[1].threw /\ outcome[1].value[1] = FALSE)
          => (response[1].rejected /\ IsNotFound(response[1].error[1]))

\* The lookup was denied, and secretExists threw, carrying the cause.
C16_Witness ==
    /\ SecretExistsDone
    /\ response[1].rejected
    /\ IsAccessDenied(response[1].error[1])
    /\ ThrewMessage(FailedToCheckSecretExistence)
    /\ outcome[1].error[1].originalError = Some(response[1].error[1])

GetTagsDone == pc = "done" /\ call.op = "getTags"

\* The tags a DescribeSecret response reports.
TagsOf(resp) == IF resp.Tags = None THEN <<>> ELSE resp.Tags[1]

\* C17: for a response whose tags each have a key, no key twice, getTags
\* returns a mapping that holds every reported tag's key with that tag's value
\* and is empty exactly when no tag is reported; a not-found failure throws
\* 'Secret "<name>" not found.' and every other failure 'Failed to get secret
\* tags'.
C17_GetTagsMapsEveryTag ==
    GetTagsDone
    => /\ (/\ ~response[1].rejected
           /\ \A i \in 1..Len(TagsOf(response[1].body[1])) :
                  /\ TruthyString(TagsOf(response[1].body[1])[i].Key)
                  /\ \A j \in 1..Len(TagsOf(response[1].body[1])) :
                         i # j => TagsOf(response[1].body[1])[i].Key
                                      # TagsOf(response[1].body[1])[j].Key)
          => LET tags == TagsOf(response[1].body[1])
                 mapping == outcome[1].value[1]
             IN  /\ ~outcome[1].threw
                 /\ \A i \in 1..Len(tags) :
                        /\ tags[i].Key[1] \in DOMAIN mapping
                        /\ mapping[tags[i].Key[1]] = tags[i].Value[1]
                 /\ (DOMAIN mapping = {}) <=> (tags = <<>>)
       /\ (response[1].rejected /\ IsNotFound(response[1].error[1]))
          => /\ ThrewMessage(SecretNotFound(call.secretName))
             /\ outcome[1].error[1].message[2] = call.secretName
       /\ (response[1].rejected /\ ~IsNotFound(response[1].error[1]))
          => ThrewMessage(FailedToGetSecretTags)

GetSecretVersionsDone == pc = "done" /\ call.op = "getSecretVersions"

\* The versions a ListSecretVersionIds response reports.
VersionsOf(resp) == IF resp.Versions = None THEN <<>> ELSE resp.Versions[1]

\* The stage list of a version holds the current-stage marker.
HasCurrentStage(version) ==
    /\ version.VersionStages # None
    /\ "AWSCURRENT" \in {version.VersionStages[1][k] :
                            k \in 1..Len(version.VersionStages[1])}

\* C18: getSecretVersions returns one record per reported version, in the
\* service's order: isLatest is true exactly when the version's stage list holds
\* 'AWSCURRENT' (false without a stage list), versionId is the reported
\* identifier, or 'unknown' when none is reported.
C18_VersionsAreKeptAndMarked ==
    (GetSecretVersionsDone /\ ~response[1].rejected)
    => LET versions == VersionsOf(response[1].body[1])
           records == outcome[1].value[1]
       IN  /\ ~outcome[1].threw
           /\ Len(records) = Len(versions)
           /\ \A i \in 1..Len(versions) :
                  /\ records[i].isLatest = HasCurrentStage(versions[i])
                  /\ records[i].versionId
                         = (IF versions[i].VersionId \in {None, Some("")}
                            THEN "unknown" ELSE versions[i].VersionId[1])
                  /\ records[i].createdDate = versions[i].CreatedDate

\* Two versions came back in order: the first without identifier nor stages,
\* the second current by the last of its stages.
C18_Witness ==
    /\ GetSecretVersionsDone
    /\ ~response[1].rejected
    /\ Len(VersionsOf(response[1].body[1])) = 2
    /\ VersionsOf(response[1].body[1])[1].VersionId = None
    /\ VersionsOf(response[1].body[1])[2].VersionStages
           = Some(<<"AWSPENDING", "AWSCURRENT">>)
    /\ outcome[1].value[1][1].versionId = "unknown"
    /\ ~outcome[1].value[1][1].isLatest
    /\ outcome[1].value[1][2].isLatest

ListSecretsDone == pc = "done" /\ call.op = "listSecrets"

\* The entries a ListSecrets response reports.
SecretListOf(resp) == IF resp.SecretList = None THEN <<>> ELSE resp.SecretList[1]

HasName(entry) == TruthyString(entry.Name)

\* C19: listSecrets returns the names of the entries of the response's page in
\* the service's order, the entries without a name dropped and nothing else
\* dropped or added, and the response's continuation token, whenever there is
\* one.
C19_ListSecretsKeepsNamedEntries ==
    (ListSecretsDone /\ ~response[1].rejected)
    => LET named == SelectSeq(SecretListOf(response[1].body[1]), HasName)
           result == outcome[1].value[1]
       IN  /\ ~outcome[1].threw
           /\ Len(result.secretNames) = Len(named)
           /\ \A i \in 1..Len(named) : result.secretNames[i] = named[i].Name[1]
           /\ result.nextToken = response[1].body[1].NextToken

\* A page of a named entry after a nameless one came back as the one name, with
\* the token of the next page.
C19_Witness ==
    /\ ListSecretsDone
    /\ ~response[1].rejected
    /\ response[1].body[1].SecretList = Some(<<[Name |-> None], [Name |-> Some("s2")]>>)
    /\ response[1].body[1].NextToken = Some("t2")
    /\ outcome[1].value[1].secretNames = <<"s2">>
    /\ outcome[1].value[1].nextToken = Some("t2")

TagSecretSent == call.op = "tagSecret" /\ request # None

\* C20: the request of tagSecret holds exactly one {Key, Value} tag per key of
\* the caller's mapping, with that key's value, and no other tag; on success
\* the method returns success true and a message that reports the number of
\* keys.
C20_TagSecretSendsOneTagPerKey ==
    TagSecretSent
    => LET sent == request[1].Tags
           keys == {call.tags.ks[i] : i \in 1..Len(call.tags.ks)}
       IN  /\ Len(sent) = Cardinality(keys)
           /\ \A i \in 1..Len(call.tags.ks) :
                  Cardinality({j \in 1..Len(sent) :
                                  /\ sent[j].Key = call.tags.ks[i]
                                  /\ sent[j].Value = call.tags.vs[i]}) = 1
           /\ \A j \in 1..Len(sent) : sent[j].Key \in keys
           /\ (pc = "done" /\ ~response[1].rejected)
              => outcome[1] =
                     Return([success |-> TRUE,
                             message |->
                                 <<"Successfully tagged secret \"", call.secretName,
                                   "\" with ",
                                   <<"0", "1", "2", "3", "4">>[Cardinality(keys) + 1],
                                   " tags">>])

\* Two tags, one of them with an empty value, were sent and acknowledged.
C20_Witness ==
    /\ pc = "done"
    /\ TagSecretSent
    /\ call.tags = TagMapping(<<"team", "env">>, <<"", "prod">>)
    /\ request[1].Tags = <<[Key |-> "team", Value |-> ""],
                           [Key |-> "env", Value |-> "prod"]>>
    /\ ~outcome[1].threw
    /\ outcome[1].value[1].success

\* C21: whatever the client answers, an error thrown by any of the ten public
\* methods is a SecretsManagerError, and it carries what the client rejected
\* with as originalError whenever that is an Error.
C21_OnlySecretsManagerErrorsEscape ==
    (pc = "done" /\ outcome[1].threw)
    => /\ InstanceOfSecretsManagerError(outcome[1].error[1])
       /\ outcome[1].error[1].name = "SecretsManagerError"
       /\ (response[1].rejected /\ InstanceOfError(response[1].error[1]))
          => outcome[1].error[1].originalError = Some(response[1].error[1])

\* getTags met an access-denied rejection and threw a SecretsManagerError that
\* carries it.
C21_Witness ==
    /\ GetTagsDone
    /\ response[1].rejected
    /\ IsAccessDenied(response[1].error[1])
    /\ outcome[1].threw
    /\ InstanceOfSecretsManagerError(outcome[1].error[1])
    /\ outcome[1].error[1].message = FailedToGetSecretTags
    /\ outcome[1].error[1].originalError = Some(response[1].error[1])

\* A step of an invocation that sends no second request: at most one request
\* is out, the step after the request ends the invocation with that request
\* alone, and nothing follows the end but the caller's resumption.
SendsOneRequest ==
    /\ Len(request') <= 1
    /\ pc = "awaiting" => (pc' = "done" /\ request' = request /\ call' = call)
    /\ pc = "done" => (pc' = "idle" /\ request' = None)

\* C22 as claimed: no invocation sends a second request, and whenever its
\* request fails the invocation ends with an error.
C22_EveryFailureEndsWithAnError ==
    [][/\ SendsOneRequest
       /\ (pc = "awaiting" /\ response'[1].rejected) => outcome'[1].threw]_vars

\* C22, amended: no invocation of a public method sends a second request; when
\* its request fails (throttling included) the invocation ends at once, with
\* an error, or, for secretExists on the not-found condition, with false;
\* batchGetSecrets and listSecrets end after the one page, whether or not the
\* response carries a continuation token.
C22_NoMethodRetries ==
    [][/\ SendsOneRequest
       /\ (pc = "awaiting" /\ response'[1].rejected)
          => \/ outcome'[1].threw
             \/ /\ call.op = "secretExists"
                /\ IsNotFound(response'[1].error[1])
                /\ outcome'[1] = Return(FALSE)
       /\ (/\ pc = "awaiting"
           /\ call.op \in {"batchGetSecrets", "listSecrets"}
           /\ ~response'[1].rejected
           /\ response'[1].body[1].NextToken # None)
          => (pc' = "done" /\ Len(request') = 1)]_vars

\* getSecret was throttled: it threw the throttled error, its one request the
\* only one sent.
C22_Witness ==
    /\ GetSecretDone
    /\ response[1].rejected
    /\ IsThrottling(response[1].error[1])
    /\ ThrewMessage(RequestThrottled)
    /\ Len(request) = 1

\* A string field of the config, or the environment's region, is given.
Given(o) == o # None /\ o[1] # ""

\* The config the constructor was called with, omitted meaning {}.
ConfigOf(cfg) ==
    IF cfg = None
    THEN [region |-> None, accessKeyId |-> None, secretAccessKey |-> None,
          credentials |-> None]
    ELSE cfg[1]

\* C24: the client is built with the access key pair when both are given, a
\* credentials object given or not; otherwise with the credentials object when
\* one is given; otherwise with no credentials.  Its region is the config's,
\* else the environment's, else 'us-east-1'.
C24_CredentialsAndRegionByPriority ==
    client # None
    => LET c == ConfigOf(config)
           pair == Given(c.accessKeyId) /\ Given(c.secretAccessKey)
       IN  /\ pair => client[1].credentials
                          = Some([accessKeyId |-> c.accessKeyId[1],
                                  secretAccessKey |-> c.secretAccessKey[1]])
           /\ (~pair /\ c.credentials # None)
              => client[1].credentials = c.credentials
           /\ (~pair /\ c.credentials = None) => client[1].credentials = None
           /\ Given(c.region) => client[1].region = c.region[1]
           /\ (~Given(c.region) /\ Given(env)) => client[1].region = env[1]
           /\ (~Given(c.region) /\ ~Given(env)) => client[1].region = "us-east-1"

\* A facade was built from a key pair and a credentials object, with no region
\* of its own: it took the pair, and the region of the environment.
C24_Witness ==
    /\ client # None
    /\ config = Some([region |-> None, accessKeyId |-> Some("AK1"),
                      secretAccessKey |-> Some("SK1"),
                      credentials |-> Some(CredentialsObject)])
    /\ env = Some("ap-south-1")
    /\ client[1] = [region |-> "ap-south-1",
                    credentials |-> Some([accessKeyId |-> "AK1",
                                          secretAccessKey |-> "SK1"])]

\* The names of the entries of a batch response.
NamesIn(resp) ==
    {ValuesOf(resp)[i].Name[1] :
        i \in {j \in 1..Len(ValuesOf(resp)) : ValuesOf(resp)[j].Name # None}}

\* The result of caller c's batch call holds nothing but what the response to
\* its own request holds.
OwnDataOnly(c) ==
    (/\ slots[c].pc = "done"
     /\ slots[c].call.op = "batchGetSecrets"
     /\ ~slots[c].outcome[1].threw)
    => LET resp == slots[c].response[1].body[1]
           result == slots[c].outcome[1].value[1]
       IN  /\ DOMAIN result.secrets \subseteq NamesIn(resp)
           /\ result.errors = ErrorRecords(ErrorsOf(resp))
           /\ result.nextToken \in {None, resp.NextToken}

\* Callers whose calls had the same arguments and the same answer hold the same
\* outcome, whatever the others did meanwhile.
SameCallSameOutcome(c, d) ==
    (/\ slots[c].pc = "done"
     /\ slots[d].pc = "done"
     /\ slots[c].call.op = slots[d].call.op
     /\ slots[c].call = slots[d].call
     /\ slots[c].response = slots[d].response)
    => slots[c].outcome = slots[d].outcome

\* C23: no method changes the facade's only field, the client configuration set
\* at construction; under every interleaving of concurrent calls, the outcome of
\* a call is determined by its own arguments and the answer to its own request,
\* and a batchGetSecrets result (secrets, errors, token) holds no data of
\* another call.
C23_CallsShareNoState ==
    /\ client = Some(constructor(None, None))
    /\ \A c \in DOMAIN slots : OwnDataOnly(c)
    /\ \A c \in DOMAIN slots : \A d \in DOMAIN slots : SameCallSameOutcome(c, d)

\* While one caller holds the result of a batch call about s1, with a token,
\* another holds the result of a batch call about s2 alone, with none.
C23_Witness ==
    /\ slots # <<>>
    /\ slots[1].pc = "done"
    /\ slots[2].pc = "done"
    /\ slots[1].call.op = "batchGetSecrets"
    /\ slots[2].call.op = "batchGetSecrets"
    /\ ~slots[1].outcome[1].threw
    /\ ~slots[2].outcome[1].threw
    /\ DOMAIN slots[1].outcome[1].value[1].secrets = {"s1"}
    /\ slots[1].outcome[1].value[1].nextToken = Some("t2")
    /\ DOMAIN slots[2].outcome[1].value[1].secrets = {"s2"}
    /\ slots[2].outcome[1].value[1].nextToken = None

\* The entries of a value list that give the secret of name k its value: those
\* of that name with a non-empty text.
TextEntriesOf(values, k) ==
    {i \in 1..Len(values) :
        /\ values[i].Name = Some(k)
        /\ values[i].SecretString # None
        /\ values[i].SecretString[1] # <<>>}

\* The greatest member of a non-empty set of indices.
LastOf(S) == CHOOSE i \in S : \A j \in S : j <= i

\* C25: batchGetSecrets parses only on request. In a result it returned, every
\* value of result.secrets is the text of the last entry of that name in the
\* response: when the caller gave parse as true, that text parsed as JSON, or
\* the text itself when it is not JSON; when the caller omitted parse (or gave
\* false), the text itself, as a string.
C25_BatchParsesOnlyOnRequest ==
    (BatchGetSecretsDone /\ ~outcome[1].threw)
    => LET values == ValuesOf(response[1].body[1])
           secrets == outcome[1].value[1].secrets
       IN  \A k \in DOMAIN secrets :
               /\ TextEntriesOf(values, k) # {}
               /\ LET text == values[LastOf(TextEntriesOf(values, k))].SecretString[1]
                  IN  IF call.options.parse = Some(TRUE) /\ JsonParse(text).ok
                      THEN secrets[k] = JsonParse(text).v
                      ELSE secrets[k] = JsString(text)

\* A call without the parse flag was answered with a JSON text for s1 and
\* returned that text as a string, not the object it denotes.
C25_Witness ==
    /\ BatchGetSecretsDone
    /\ call.options.parse = None
    /\ ~outcome[1].threw
    /\ "s1" \in DOMAIN outcome[1].value[1].secrets
    /\ outcome[1].value[1].secrets["s1"] = JsString(ValidJsonText)
    /\ JsonParse(ValidJsonText).ok
    /\ JsonParse(ValidJsonText).v # JsString(ValidJsonText)

====
